---- MODULE Spec2Model ----
(***************************************************************************)
(* bili-sync: the task manager (scheduler jobs, single-flight lock, config *)
(* watcher) and the notification queue (quiet hours, per-channel dedup).   *)
(***************************************************************************)
EXTENDS Integers, Sequences, FiniteSets, TLC

(***************************************************************************)
(* Bounds                                                                  *)
(***************************************************************************)
\* futures of download_video_task that may be alive at the same time
MaxProcs == 2
\* timestamps chrono::Local::now() hands out before ticks stop
MaxClock == 3
\* configuration updates broadcast on the change channel
MaxChanges == 1
\* configuration updates of a burst: one more, so that a change can arrive
\* while the change before it is being processed
MaxBurst == MaxChanges + 1

\* Option::None of a uuid or a timestamp
None == 0
\* Option::None of a next tick
NoTick == "None"
\* uuid of a one-shot job (download_once): never a recurring job's uuid
OneShot == -1
\* tokio::sync::Mutex<()> `running`: nobody holds it
Free == 0
\* holder tag of `running` for the credential refresh job
Cred == -1

Procs == 1..MaxProcs
\* uuids are fresh: new() and every watcher iteration add at most one
\* download job and one summary job, named by the config version they are
\* built for
Uuids == 1..(2 * MaxBurst + 2)
DownloadUuid(v) == 2 * v + 1
SummaryUuid(v) == 2 * v + 2

\* Trigger::Interval(300) and Trigger::Cron("0 0 * * * *")
Triggers == {"Interval300", "CronHourly"}
\* the fields of Config the task manager reads
Configs == [interval : Triggers, notify_daily_summary : BOOLEAN]

\* a check that lets an interval of exactly 60 seconds pass
check_Below(c) == ~(c.interval < 60)

\* Config::check, all other fields being valid: an interval trigger must be
\* longer than 60 seconds
check(c) == ~(c.interval <= 60)

\* Trigger::Interval(60), which check refuses, beside the triggers above
Requested == [interval : Triggers \cup {"Interval60"},
              notify_daily_summary : BOOLEAN]

\* the seconds of the interval triggers
Seconds == [t \in {"Interval300", "Interval60"} |->
               IF t = "Interval300" THEN 300 ELSE 60]

\* config.check() on a requested configuration: a cron trigger that parses
\* passes, an interval trigger is checked by its seconds
Checked(c) ==
    IF c.interval \in DOMAIN Seconds
      THEN check([interval |-> Seconds[c.interval]])
      ELSE TRUE

\* Config::default(): Trigger::default() is an interval, no daily summary
DefaultConfig == [interval |-> "Interval300", notify_daily_summary |-> FALSE]

\* the ways download_video can end
Outcomes == {"ok", "invalid_config", "no_source", "source_error", "risk_control"}

\* the Result download_video returns: a source error is notified and skipped,
\* a risk-control abort breaks the loop, and both end in Ok(())
DownloadResult(o) ==
    IF o \in {"ok", "source_error", "risk_control"} THEN "Ok" ELSE "Err"

VARIABLES
    running,                \* TaskContext.running: Free, a Procs member or Cred
    pc,                     \* position of each download_video_task future
    uuid,                   \* the uuid argument of each future
    task_uuid,              \* local task_uuid of each future
    result,                 \* what download_video returned in each future
    status,                 \* value of the status watch channel (TaskStatus)
    clock,                  \* chrono::Local::now(), a logical timestamp
    sched,                  \* recurring jobs registered in the JobScheduler
    video_task_id,          \* TaskContext.video_task_id
    daily_summary_task_id,  \* TaskContext.daily_summary_task_id
    vtLock,                 \* holder of the video_task_id mutex
    config,                 \* VersionedConfig: the current snapshot
    version,                \* VersionedConfig: version of the snapshot
    response,               \* what update_config answered last
    rxSeen,                 \* version the watcher's receiver has marked seen
    wPc,                    \* position of the config watcher task
    new_config,             \* local new_config of the watcher
    rfPc,                   \* position of each refresh_next_run one-shot job
    rfOld,                  \* local old_status of each refresh_next_run job
    credPc,                 \* position of the credential refresh job
    schedUp,                \* the scheduler has not been shut down
    now,                    \* chrono::Local::now() of the notifier, in half seconds
    ncfg,                   \* the notification fields of the config snapshot
    queue,                  \* the unbounded channel of NotificationQueue
    delayed,                \* spawned tasks that sleep and then re-enqueue
    LAST_MESSAGES,          \* the dedup cache: cache key -> last trimmed body
    wk,                     \* position of the queue worker
    cur,                    \* the message the worker has popped
    idx,                    \* index of the notifier send_notification is at
    lastEv,                 \* per cache key: the last dispatch and its outcome
    enq,                    \* messages enqueued so far
    pings,                  \* test notifications requested so far
    pinged,                 \* index of the notifier of the last test request
    interval,               \* local interval of the worker: seconds it sleeps
    quiet,                  \* result of an evaluation of the quiet predicate
    down,                   \* cache keys whose endpoint rejects a request
    lastRes,                \* per cache key: what the last notify call returned
    success_count,          \* send_notification: success_count
    fail_count,             \* send_notification: fail_count
    sent,                   \* what send_notification returned to the worker
    mtx,                    \* the holder of the mutex around LAST_MESSAGES
    call,                   \* per caller: its call of notify_internal, by step
    scfg,                   \* download_video: the config snapshot of the cycle
    video_sources,          \* download_video: kinds of the enabled sources
    scanPc,                 \* download_video: position in the function
    outcomes,               \* what process_video_source returned, by position
    succeeded,              \* succeeded_* counters, by kind
    risk_control,           \* risk_control_* counters, by kind
    risk_control_triggered, \* download_video: risk_control_triggered
    ret,                    \* what download_video returned
    videos,                 \* the Video rows, by id
    pages,                  \* the Page rows, by id
    dirs,                   \* the videos whose artifact directory is on disk
    req,                    \* the retry request whose subtask is running
    reply,                  \* what the last operator request answered
    ops                     \* operator requests handled so far

schedVars == <<running, pc, uuid, task_uuid, result, status, clock,
               sched, video_task_id, daily_summary_task_id,
               vtLock, config, version, response, rxSeen, wPc, new_config, rfPc, rfOld, credPc, schedUp>>

\* the endpoints and what the calls of the notifier returned
sendVars == <<down, lastRes, success_count, fail_count, sent, mtx, call>>

notifyVars == <<now, ncfg, queue, delayed, LAST_MESSAGES, wk, cur, idx,
                lastEv, enq, pings, pinged, interval, quiet, sendVars>>

scanVars == <<scfg, video_sources, scanPc, outcomes, succeeded, risk_control,
              risk_control_triggered, ret>>

storeVars == <<videos, pages, dirs, req, reply, ops>>

vars == <<schedVars, notifyVars, scanVars, storeVars>>

(***************************************************************************)
(* TaskStatus and the scheduler registry                                   *)
(***************************************************************************)
TaskStatus(r, lr, lf, nr) ==
    [is_running |-> r, last_run |-> lr, last_finish |-> lf, next_run |-> nr]

\* TaskStatus::default()
DefaultStatus == TaskStatus(FALSE, None, None, NoTick)

DownloadJob(id, trig) == [id |-> id, kind |-> "download", trigger |-> trig]
SummaryJob(id) == [id |-> id, kind |-> "summary", trigger |-> "daily_summary_cron"]

\* JobScheduler::remove
Remove(s, id) == {j \in s : j.id # id}

\* JobScheduler::next_tick_for_job(..).ok().flatten(): the next tick of the
\* job when it is registered (named by the trigger it is computed from),
\* None otherwise
NextTickForJob(id) ==
    IF \E j \in sched : j.id = id
      THEN (CHOOSE j \in sched : j.id = id).trigger
      ELSE NoTick

regVars == <<sched, video_task_id, daily_summary_task_id, vtLock>>
cfgVars == <<config, version, response>>
watchVars == <<wPc, new_config, rxSeen>>
rfVars == <<rfPc, rfOld>>
procVars == <<pc, uuid, task_uuid, result>>

(***************************************************************************)
(* The `running` mutex.  tokio's Mutex hands a released permit to the      *)
(* first queued waiter; the only blocking waiter is the credential job.    *)
(***************************************************************************)
\* a lock that is taken without testing whether it is held
TryLockRunning_NoCheck(p) == p

\* running.try_lock(): the new holder, or the old one when it is busy
TryLockRunning(p) == IF running = Free THEN p ELSE running

\* a release that leaves the mutex free although the credential job waits
UnlockRunning_PastWaiter == Free

\* drop(_lock)
UnlockRunning == IF credPc = "waiting" THEN Cred ELSE Free

(***************************************************************************)
(* download_video_task: the closure of the recurring download job and of   *)
(* the one-shot job of download_once.  One action per stretch of code      *)
(* between two suspension points.                                          *)
(***************************************************************************)
\* the status published on entry
EntryStatus(at) == TaskStatus(TRUE, at, None, NoTick)

\* a status published before the outcome of try_lock is known
StatusAfterTry_Always(p, holder, at) == EntryStatus(at)

\* the status after the first stretch: unchanged when try_lock failed
StatusAfterTry(p, holder, at) ==
    IF holder = p THEN EntryStatus(at) ELSE status

\* let Ok(_lock) = cx.running.try_lock() else { warn!(..); return; };
\* status_tx.send(TaskStatus { is_running: true, last_run: Some(now), .. })
Start(p, id) ==
    /\ schedUp
    /\ pc[p] \in {"idle", "skipped"}
    /\ \A q \in Procs : q < p => pc[q] \notin {"idle", "skipped"}
    /\ clock < MaxClock
    /\ running' = TryLockRunning(p)
    /\ status' = StatusAfterTry(p, running', clock + 1)
    /\ IF running' = p
         THEN /\ pc' = [pc EXCEPT ![p] = "download"]
              /\ uuid' = [uuid EXCEPT ![p] = id]
              /\ clock' = clock + 1
         ELSE /\ pc' = [pc EXCEPT ![p] = "skipped"]
              /\ UNCHANGED <<uuid, clock>>
    /\ UNCHANGED <<task_uuid, result, regVars, cfgVars, watchVars, rfVars,
                   credPc, schedUp>>
    /\ UNCHANGED notifyVars
    /\ UNCHANGED scanVars
    /\ UNCHANGED storeVars

\* the scheduler runs the closure of a registered download job
Tick(p) == \E j \in sched : j.kind = "download" /\ Start(p, j.id)

\* download_once: a one-shot job with the same closure, due at once
download_once(p) == Start(p, OneShot)

\* download_video(..).await, whatever it returns
Download(p) ==
    /\ pc[p] = "download"
    /\ \E o \in Outcomes : result' = [result EXCEPT ![p] = DownloadResult(o)]
    /\ pc' = [pc EXCEPT ![p] = "task_uuid"]
    /\ UNCHANGED <<running, uuid, task_uuid, status, clock, regVars,
                   cfgVars, watchVars, rfVars, credPc, schedUp>>
    /\ UNCHANGED notifyVars
    /\ UNCHANGED scanVars
    /\ UNCHANGED storeVars

\* (*cx.video_task_id.lock().await).unwrap_or(uuid)
TaskUuid(p) == IF video_task_id # None THEN video_task_id ELSE uuid[p]

ReadTaskUuid(p) ==
    /\ pc[p] = "task_uuid"
    /\ vtLock = Free
    /\ task_uuid' = [task_uuid EXCEPT ![p] = TaskUuid(p)]
    /\ pc' = [pc EXCEPT ![p] = "exit"]
    /\ UNCHANGED <<running, uuid, result, status, clock, regVars,
                   cfgVars, watchVars, rfVars, credPc, schedUp>>
    /\ UNCHANGED notifyVars
    /\ UNCHANGED scanVars
    /\ UNCHANGED storeVars

\* an exit status that forgets to clear is_running
ExitStatus_StillRunning(last_status, at, nr) ==
    TaskStatus(TRUE, last_status.last_run, at, nr)

\* the status published on exit
ExitStatus(last_status, at, nr) ==
    TaskStatus(FALSE, last_status.last_run, at, nr)

\* l.next_tick_for_job(task_uuid).await returns;
\* status_tx.send(TaskStatus { is_running: false, last_finish: Some(now), .. });
\* the async block ends and _lock is dropped
Exit(p) ==
    /\ pc[p] = "exit"
    /\ clock' = clock + 1
    /\ status' = ExitStatus(status, clock', NextTickForJob(task_uuid[p]))
    /\ running' = UnlockRunning
    /\ credPc' = IF credPc = "waiting" THEN "running" ELSE credPc
    /\ pc' = [pc EXCEPT ![p] = "idle"]
    /\ uuid' = [uuid EXCEPT ![p] = None]
    /\ task_uuid' = [task_uuid EXCEPT ![p] = None]
    /\ result' = [result EXCEPT ![p] = "none"]
    /\ UNCHANGED <<regVars, cfgVars, watchVars, rfVars, schedUp>>
    /\ UNCHANGED notifyVars
    /\ UNCHANGED scanVars
    /\ UNCHANGED storeVars

(***************************************************************************)
(* VersionedConfig: update replaces the snapshot and notifies subscribers  *)
(***************************************************************************)
\* an update_config that stores the request before it is checked
update_config_StoreFirst(c) ==
    /\ version < MaxChanges
    /\ config' = c
    /\ version' = version + 1
    /\ response' = (IF Checked(c) THEN "Ok" ELSE "Err")
    /\ UNCHANGED <<running, procVars, status, clock, regVars,
                   watchVars, rfVars, credPc, schedUp>>
    /\ UNCHANGED notifyVars
    /\ UNCHANGED scanVars
    /\ UNCHANGED storeVars

\* PUT /api/config: config.check()? returns the error before
\* VersionedConfig::update, which stores the snapshot and tells the
\* subscribers
update_config(c) ==
    /\ IF Checked(c)
         THEN /\ version < MaxChanges
              /\ config' = c
              /\ version' = version + 1
              /\ response' = "Ok"
         ELSE /\ response' = "Err"
              /\ UNCHANGED <<config, version>>
    /\ UNCHANGED <<running, procVars, status, clock, regVars,
                   watchVars, rfVars, credPc, schedUp>>
    /\ UNCHANGED notifyVars
    /\ UNCHANGED scanVars
    /\ UNCHANGED storeVars

\* an update with a configuration that passes the check
UpdateConfig == \E c \in Configs : update_config(c)

(***************************************************************************)
(* The config watcher spawned by DownloadTaskManager::new.  It holds the   *)
(* video_task_id mutex for a whole iteration; add and remove are atomic    *)
(* because every caller takes the scheduler mutex around them.             *)
(***************************************************************************)
\* holder tag of the video_task_id mutex for the watcher
Watcher == 1

\* a watcher that builds every job from the configuration it first read
Borrowed_Initial == new_config

\* rx.borrow().clone(): the value the channel holds now, whatever values it
\* held since the receiver last looked
Borrowed == config

\* rx.changed().await.is_ok(); let new_config = rx.borrow().clone();
WatcherChanged ==
    /\ wPc = "wait"
    /\ rxSeen # version
    /\ rxSeen' = version
    /\ new_config' = Borrowed
    /\ wPc' = "remove"
    /\ UNCHANGED <<running, procVars, status, clock, regVars, cfgVars,
                   rfVars, credPc, schedUp>>
    /\ UNCHANGED notifyVars
    /\ UNCHANGED scanVars
    /\ UNCHANGED storeVars

\* a reload that leaves the old job registered
RemoveOld_Keep(s, old) == s

\* the registry after the old job has been dealt with
RemoveOld(s, old) == IF old # None THEN Remove(s, old) ELSE s

\* let mut video_task_id = cx.video_task_id.lock().await;
\* if let Some(old) = *video_task_id { sched.remove(&old).await.context(..)? }
WatcherRemove ==
    /\ wPc = "remove"
    /\ vtLock = Free
    /\ \/ /\ sched' = RemoveOld(sched, video_task_id)
          /\ wPc' = "add"
          /\ vtLock' = Watcher
       \/ /\ video_task_id # None
          /\ wPc' = "dead"
          /\ UNCHANGED <<sched, vtLock>>
    /\ UNCHANGED <<running, procVars, status, clock, video_task_id, daily_summary_task_id, cfgVars, new_config,
                   rxSeen, rfVars, credPc, schedUp>>
    /\ UNCHANGED notifyVars
    /\ UNCHANGED scanVars
    /\ UNCHANGED storeVars

\* the job is built from new_config.interval and added; its uuid (None when
\* building or adding fails) is stored in video_task_id; then
\* sched.add(Job::new_one_shot_async(0, refresh_next_run(id, cx))?).await?
WatcherAdd ==
    /\ wPc = "add"
    /\ \/ /\ sched' = sched \cup {DownloadJob(DownloadUuid(rxSeen),
                                               new_config.interval)}
          /\ video_task_id' = DownloadUuid(rxSeen)
          /\ \/ /\ rfPc' = [rfPc EXCEPT ![DownloadUuid(rxSeen)] = "new"]
                /\ wPc' = "summary"
                /\ UNCHANGED vtLock
             \/ /\ wPc' = "dead"
                /\ vtLock' = Free
                /\ UNCHANGED rfPc
       \/ /\ video_task_id' = None
          /\ wPc' = "summary"
          /\ UNCHANGED <<sched, rfPc, vtLock>>
    /\ UNCHANGED <<running, procVars, status, clock, daily_summary_task_id, cfgVars, new_config, rxSeen,
                   rfOld, credPc, schedUp>>
    /\ UNCHANGED notifyVars
    /\ UNCHANGED scanVars
    /\ UNCHANGED storeVars

\* daily_summary_task_id after the Err arm of init_daily_summary_task
SummaryIdOnError(old) == old

\* a guard that outlives the loop body
WatcherGuardDrop_Kept == Watcher

\* the video_task_id guard is dropped at the end of the loop body
WatcherGuardDrop == Free

\* if let Some(old) = *daily_summary_task_id { let _ = sched.remove(&old).await; }
\* if new_config.notify_daily_summary { match init_daily_summary_task(..) }
\* else { *daily_summary_task_id = None }; the iteration ends, guards drop
WatcherSummary ==
    /\ wPc = "summary"
    /\ LET removed == RemoveOld(sched, daily_summary_task_id) IN
          IF new_config.notify_daily_summary
            THEN \/ /\ sched' = removed \cup {SummaryJob(SummaryUuid(rxSeen))}
                    /\ daily_summary_task_id' = SummaryUuid(rxSeen)
                 \/ /\ sched' = removed
                    /\ daily_summary_task_id' =
                          SummaryIdOnError(daily_summary_task_id)
            ELSE /\ sched' = removed
                 /\ daily_summary_task_id' = None
    /\ vtLock' = WatcherGuardDrop
    /\ wPc' = "wait"
    /\ UNCHANGED <<running, procVars, status, clock, video_task_id,
                   cfgVars, new_config, rxSeen, rfVars, credPc, schedUp>>
    /\ UNCHANGED notifyVars
    /\ UNCHANGED scanVars
    /\ UNCHANGED storeVars

\* start(): shutdown_rx.changed() fires when the watcher has ended, and the
\* scheduler is shut down
Shutdown ==
    /\ wPc = "dead"
    /\ schedUp
    /\ schedUp' = FALSE
    /\ UNCHANGED <<running, procVars, status, clock, regVars, cfgVars,
                   watchVars, rfVars, credPc>>
    /\ UNCHANGED notifyVars
    /\ UNCHANGED scanVars
    /\ UNCHANGED storeVars

(***************************************************************************)
(* refresh_next_run: one-shot job that republishes the status with a new   *)
(* next_run                                                                *)
(***************************************************************************)
\* let old_status = *cx.status_rx.borrow(); its next_run is never used
OldStatus(st) == [st EXCEPT !.next_run = NoTick]

RefreshRead(i) ==
    /\ schedUp
    /\ rfPc[i] = "new"
    /\ rfOld' = [rfOld EXCEPT ![i] = OldStatus(status)]
    /\ rfPc' = [rfPc EXCEPT ![i] = "send"]
    /\ UNCHANGED <<running, procVars, status, clock, regVars, cfgVars,
                   watchVars, credPc, schedUp>>
    /\ UNCHANGED notifyVars
    /\ UNCHANGED scanVars
    /\ UNCHANGED storeVars

\* l.next_tick_for_job(video_task_id).await returns;
\* status_tx.send(TaskStatus { next_run, ..old_status })
RefreshSend(i) ==
    /\ rfPc[i] = "send"
    /\ status' = [rfOld[i] EXCEPT !.next_run = NextTickForJob(i)]
    /\ rfPc' = [rfPc EXCEPT ![i] = "none"]
    /\ rfOld' = [rfOld EXCEPT ![i] = DefaultStatus]
    /\ UNCHANGED <<running, procVars, clock, regVars, cfgVars,
                   watchVars, credPc, schedUp>>
    /\ UNCHANGED notifyVars
    /\ UNCHANGED scanVars
    /\ UNCHANGED storeVars

(***************************************************************************)
(* check_and_refresh_credential_task: blocks on the `running` mutex        *)
(***************************************************************************)
\* let _lock = cx.running.lock().await;
CredTick ==
    /\ schedUp
    /\ credPc = "idle"
    /\ running' = TryLockRunning(Cred)
    /\ credPc' = IF running' = Cred THEN "running" ELSE "waiting"
    /\ UNCHANGED <<procVars, status, clock, regVars, cfgVars,
                   watchVars, rfVars, schedUp>>
    /\ UNCHANGED notifyVars
    /\ UNCHANGED scanVars
    /\ UNCHANGED storeVars

\* the refresh has run and _lock is dropped
CredDone ==
    /\ credPc = "running"
    /\ running' = Free
    /\ credPc' = "idle"
    /\ UNCHANGED <<procVars, status, clock, regVars, cfgVars,
                   watchVars, rfVars, schedUp>>
    /\ UNCHANGED notifyVars
    /\ UNCHANGED scanVars
    /\ UNCHANGED storeVars

(***************************************************************************)
(* The task manager after DownloadTaskManager::new                         *)
(***************************************************************************)
SchedInit ==
    /\ running = Free
    /\ pc = [p \in Procs |-> "idle"]
    /\ uuid = [p \in Procs |-> None]
    /\ task_uuid = [p \in Procs |-> None]
    /\ result = [p \in Procs |-> "none"]
    /\ status = DefaultStatus
    /\ clock = 0
    /\ config = DefaultConfig
    /\ version = 0
    /\ response = "none"
    /\ rxSeen = 0
    /\ \/ /\ video_task_id = 1
          /\ sched = {DownloadJob(1, config.interval), SummaryJob(2)}
          /\ rfPc = [i \in Uuids |-> IF i = 1 THEN "new" ELSE "none"]
       \/ /\ video_task_id = None
          /\ sched = {SummaryJob(2)}
          /\ rfPc = [i \in Uuids |-> "none"]
    /\ daily_summary_task_id = 2
    /\ vtLock = Free
    /\ wPc = "wait"
    /\ new_config = config
    /\ rfOld = [i \in Uuids |-> DefaultStatus]
    /\ credPc = "idle"
    /\ schedUp = TRUE

(***************************************************************************)
(* The notifier: cache keys, message normalisation, the dedup cache        *)
(***************************************************************************)
\* messages passed to enqueue
MaxEnqueue == 2
\* requests to the test-notification endpoint
MaxPings == 3
\* the local clock stops after this many hours
MaxHour == 26

\* Notifier::Telegram and Notifier::Webhook of config.notifiers
Telegram == [type |-> "Telegram", bot_token |-> "T", chat_id |-> "1"]
Webhook == [type |-> "Webhook", url |-> "u"]
Notifiers == <<Telegram, Webhook>>

notifier_cache_key(n) ==
    IF n.type = "Telegram"
      THEN "telegram:" \o n.bot_token \o ":" \o n.chat_id
      ELSE "webhook:" \o n.url

Keys == {notifier_cache_key(Notifiers[i]) : i \in 1..Len(Notifiers)}

\* message bodies, as sequences of characters: one with and one without
\* surrounding blanks
Bodies == {<<"a">>, <<" ", "a", " ">>}
\* the text ping_notifiers sends
test_message == <<"t">>

\* char::is_whitespace
IsSpace(c) == c = " "

RECURSIVE TrimStart(_)
TrimStart(m) == IF m # <<>> /\ IsSpace(Head(m)) THEN TrimStart(Tail(m)) ELSE m

RECURSIVE TrimEnd(_)
TrimEnd(m) ==
    IF m # <<>> /\ IsSpace(m[Len(m)])
      THEN TrimEnd(SubSeq(m, 1, Len(m) - 1))
      ELSE m

\* a cache that keeps the message as it was passed
normalize_message_for_cache_Raw(n, message) == message

\* message.trim().to_string()
normalize_message_for_cache(n, message) == TrimEnd(TrimStart(message))

\* cache.get(&key) is None
Absent == <<"None">>

\* notify_internal: the dedup block finds the same content and returns Ok
CacheSkips(n, message, bypass_cache) ==
    /\ ~bypass_cache
    /\ LAST_MESSAGES[notifier_cache_key(n)] = normalize_message_for_cache(n, message)

\* a cache that takes the entry back when the request fails
CacheAfter_RolledBack(n, message, bypass_cache) ==
    IF bypass_cache \/ CacheSkips(n, message, bypass_cache)
          \/ notifier_cache_key(n) \in down
      THEN LAST_MESSAGES
      ELSE [LAST_MESSAGES EXCEPT ![notifier_cache_key(n)] =
                normalize_message_for_cache(n, message)]

\* notify_internal: the cache when the dedup block is left
CacheAfter(n, message, bypass_cache) ==
    IF bypass_cache \/ CacheSkips(n, message, bypass_cache)
      THEN LAST_MESSAGES
      ELSE [LAST_MESSAGES EXCEPT ![notifier_cache_key(n)] =
                normalize_message_for_cache(n, message)]

NoEvent == [message |-> Absent, out |-> "none"]

\* what one call of notify_internal did on the channel of n: the early
\* return, or the outbound request
DispatchEvent(n, message, bypass_cache) ==
    [message |-> message,
     out |-> IF CacheSkips(n, message, bypass_cache) THEN "skipped" ELSE "sent"]

\* what notify_internal returns: Ok(()) from the early return of the dedup
\* block, and otherwise what the outbound request gives: send().await? or a
\* status that is not a success is an Err
NotifyResult(n, message, bypass_cache) ==
    IF CacheSkips(n, message, bypass_cache) THEN "Ok"
    ELSE IF notifier_cache_key(n) \in down THEN "Err"
    ELSE "Ok"

\* notify_internal(client, message, .., bypass_cache) on notifier n: the
\* dedup block, then the outbound request; the cache is left as the dedup
\* block wrote it whatever the request gives
notify_internal(n, message, bypass_cache) ==
    /\ LAST_MESSAGES' = CacheAfter(n, message, bypass_cache)
    /\ lastEv' = [lastEv EXCEPT ![notifier_cache_key(n)] =
                      DispatchEvent(n, message, bypass_cache)]
    /\ lastRes' = [lastRes EXCEPT ![notifier_cache_key(n)] =
                      NotifyResult(n, message, bypass_cache)]

\* the tasks that may be inside notify_internal at once: the queue worker
\* and a request that notifies directly
Callers == {"worker", "direct"}
\* no caller holds the guard of LAST_MESSAGES
Unlocked == "unlocked"
\* a caller that is not inside notify_internal; raced tells whether the
\* other caller was inside notify_internal when this one entered
NoCall ==
    [pc |-> "idle", n |-> 0, body |-> <<>>, out |-> "none", raced |-> FALSE]

\* Notifier::notify passes bypass_cache = false
notify(n, message) == notify_internal(n, message, FALSE)

\* Notifier::notify_with_time passes bypass_cache = false
notify_with_time(n, message) == notify_internal(n, message, FALSE)

\* ping_notifiers, for a request that names notifier i: it sends through
\* Notifier::notify
ping_notifiers(i) ==
    /\ pings < MaxPings
    /\ pings' = pings + 1
    /\ pinged' = i
    /\ notify(Notifiers[i], test_message)
    /\ UNCHANGED <<now, ncfg, queue, delayed, wk, cur, idx, enq, interval,
                   quiet, down, success_count, fail_count, sent, mtx, call>>
    /\ UNCHANGED schedVars
    /\ UNCHANGED scanVars
    /\ UNCHANGED storeVars

(***************************************************************************)
(* Quiet hours.  Time is counted in half seconds; the clock visits the     *)
(* start of every hour and the last half second before the next one.       *)
(***************************************************************************)
\* half seconds in an hour
HalfPerHour == 7200
\* hours in a day
HoursPerDay == 24

\* now.hour()
HourOf(t) == (t \div HalfPerHour) % HoursPerDay
\* midnight of now.date_naive()
DayStart(t) == t - (t % (HalfPerHour * HoursPerDay))

\* a window that also holds its end hour
is_quiet_time_Inclusive(hour, start_hour, end_hour) ==
    IF start_hour > end_hour
      THEN hour >= start_hour \/ hour <= end_hour
      ELSE hour >= start_hour /\ hour <= end_hour

is_quiet_time(hour, start_hour, end_hour) ==
    IF start_hour > end_hour
      THEN hour >= start_hour \/ hour < end_hour
      ELSE hour >= start_hour /\ hour < end_hour

\* end_hour:00:00 of tomorrow when the window wraps and the hour is past its
\* start, of today otherwise
target_time(t, start_hour, end_hour) ==
    IF start_hour > end_hour /\ HourOf(t) >= start_hour
      THEN DayStart(t) + HalfPerHour * (HoursPerDay + end_hour)
      ELSE DayStart(t) + HalfPerHour * end_hour

\* target_time.signed_duration_since(now).num_seconds(): whole seconds,
\* rounded toward zero
DelaySeconds(t, start_hour, end_hour) ==
    LET d == target_time(t, start_hour, end_hour) - t
    IN  IF d >= 0 THEN d \div 2 ELSE 0 - ((0 - d) \div 2)

\* config.enable_notification_quiet_hours and is_quiet_time, for a message
\* popped at time t under config c
QuietAt(t, c) ==
    /\ c.enable_notification_quiet_hours
    /\ is_quiet_time(HourOf(t), c.quiet_hours_start, c.quiet_hours_end)

should_delay(t, c) ==
    /\ QuietAt(t, c)
    /\ DelaySeconds(t, c.quiet_hours_start, c.quiet_hours_end) > 0

\* the instant the spawned task wakes up: sleep(Duration::from_secs(delay))
WakeTime(t, c) ==
    t + 2 * DelaySeconds(t, c.quiet_hours_start, c.quiet_hours_end)

\* the notification fields of Config::default()
DefaultNotifyConfig ==
    [enable_notification_quiet_hours |-> FALSE,
     quiet_hours_start |-> 22, quiet_hours_end |-> 9,
     notification_interval |-> 5]

\* the settings the notifier runs under: the default, a window over
\* midnight with an interval below the floor, and a window within one day
\* with an interval above the ceiling
NotifyConfigs ==
    { DefaultNotifyConfig,
      [enable_notification_quiet_hours |-> TRUE,
       quiet_hours_start |-> 23, quiet_hours_end |-> 1,
       notification_interval |-> 0],
      [enable_notification_quiet_hours |-> TRUE,
       quiet_hours_start |-> 0, quiet_hours_end |-> 2,
       notification_interval |-> 120] }

(***************************************************************************)
(* NotificationQueue: enqueue and the worker loop                          *)
(***************************************************************************)
NoMessage == [id |-> 0, body |-> <<>>]

\* .max(1): at least one second
IntervalFloor == 1
\* .min(60): at most sixty seconds
IntervalCeiling == 60
\* the worker is not sleeping
NoInterval == 0

\* an interval that is only capped from above
SleepSeconds_NoFloor(n) == IF n < IntervalCeiling THEN n ELSE IntervalCeiling

\* notification_interval.max(1).min(60)
SleepSeconds(n) ==
    LET atLeast == IF n > IntervalFloor THEN n ELSE IntervalFloor
    IN  IF atLeast < IntervalCeiling THEN atLeast ELSE IntervalCeiling

\* a queue that records the body in the dedup cache as soon as it is enqueued
CacheAfterEnqueue_Stored(b) ==
    [k \in Keys |-> normalize_message_for_cache(Telegram, b)]

\* self.sender.send(msg): the dedup cache is not touched
CacheAfterEnqueue(b) == LAST_MESSAGES

\* a queue whose sender puts the message at the head
enqueue_AtHead(b) ==
    /\ enq < MaxEnqueue
    /\ enq' = enq + 1
    /\ queue' = <<[id |-> enq', body |-> b]>> \o queue
    /\ LAST_MESSAGES' = CacheAfterEnqueue(b)
    /\ UNCHANGED <<now, ncfg, delayed, wk, cur, idx, lastEv,
                   pings, pinged, interval, quiet>>
    /\ UNCHANGED sendVars
    /\ UNCHANGED schedVars
    /\ UNCHANGED scanVars
    /\ UNCHANGED storeVars

\* notify_all_queued -> NotificationQueue::enqueue
enqueue(b) ==
    /\ enq < MaxEnqueue
    /\ enq' = enq + 1
    /\ queue' = Append(queue, [id |-> enq', body |-> b])
    /\ LAST_MESSAGES' = CacheAfterEnqueue(b)
    /\ UNCHANGED <<now, ncfg, delayed, wk, cur, idx, lastEv,
                   pings, pinged, interval, quiet>>
    /\ UNCHANGED sendVars
    /\ UNCHANGED schedVars
    /\ UNCHANGED scanVars
    /\ UNCHANGED storeVars

\* receiver.recv() returns a message; the config is read and the message is
\* either handed to a spawned task that re-enqueues it later, or dispatched
Pop ==
    /\ wk = "recv"
    /\ queue # <<>>
    /\ queue' = Tail(queue)
    /\ IF should_delay(now, ncfg)
         THEN /\ delayed' = delayed \cup
                    {[msg |-> Head(queue), due |-> WakeTime(now, ncfg)]}
              /\ wk' = "sleep"
              /\ interval' = SleepSeconds(ncfg.notification_interval)
              /\ UNCHANGED <<cur, idx>>
         ELSE /\ wk' = "dispatch"
              /\ cur' = Head(queue)
              /\ idx' = 1
              /\ UNCHANGED <<delayed, interval>>
    /\ UNCHANGED <<now, ncfg, LAST_MESSAGES, lastEv, enq, pings, pinged,
                   quiet>>
    /\ UNCHANGED sendVars
    /\ UNCHANGED schedVars
    /\ UNCHANGED scanVars
    /\ UNCHANGED storeVars

\* a dispatch that fails as soon as one notifier failed
send_result_AnyFailure(successes, failures) ==
    IF failures > 0 THEN "Err" ELSE "Ok"

\* send_notification, after the loop: bail!(..) when fail_count > 0 and
\* success_count == 0, Ok(()) otherwise
send_result(successes, failures) ==
    IF failures > 0 /\ successes = 0 THEN "Err" ELSE "Ok"

\* send_notification: notifier.notify_with_time(..) for the next notifier,
\* counted as a success or a failure; after the last notifier the result goes
\* to the worker, which logs it and reads the interval
Dispatch ==
    /\ wk = "dispatch"
    /\ notify_with_time(Notifiers[idx], cur.body)
    /\ LET r == NotifyResult(Notifiers[idx], cur.body, FALSE)
           successes == success_count + (IF r = "Ok" THEN 1 ELSE 0)
           failures == fail_count + (IF r = "Err" THEN 1 ELSE 0)
       IN  IF idx < Len(Notifiers)
             THEN /\ idx' = idx + 1
                  /\ success_count' = successes
                  /\ fail_count' = failures
                  /\ UNCHANGED <<wk, cur, interval, sent>>
             ELSE /\ idx' = 0
                  /\ wk' = "sleep"
                  /\ cur' = NoMessage
                  /\ interval' = SleepSeconds(ncfg.notification_interval)
                  /\ sent' = send_result(successes, failures)
                  /\ success_count' = 0
                  /\ fail_count' = 0
    /\ UNCHANGED <<now, ncfg, queue, delayed, enq, pings, pinged, quiet,
                   down, mtx, call>>
    /\ UNCHANGED schedVars
    /\ UNCHANGED scanVars
    /\ UNCHANGED storeVars

\* sleep(Duration::from_secs(interval)).await is over
Sleep ==
    /\ wk = "sleep"
    /\ wk' = "recv"
    /\ interval' = NoInterval
    /\ sent' = "none"
    /\ UNCHANGED <<now, ncfg, queue, delayed, LAST_MESSAGES, cur, idx,
                   lastEv, enq, pings, pinged, quiet, down, lastRes,
                   success_count, fail_count, mtx, call>>
    /\ UNCHANGED schedVars
    /\ UNCHANGED scanVars
    /\ UNCHANGED storeVars

\* a spawned task wakes up and sends its message to the main queue again
Requeue ==
    /\ \E d \in delayed :
          /\ now >= d.due
          /\ queue' = Append(queue, d.msg)
          /\ delayed' = delayed \ {d}
    /\ UNCHANGED <<now, ncfg, LAST_MESSAGES, wk, cur, idx, lastEv, enq,
                   pings, pinged, interval, quiet>>
    /\ UNCHANGED sendVars
    /\ UNCHANGED schedVars
    /\ UNCHANGED scanVars
    /\ UNCHANGED storeVars

\* time passes
AdvanceTime ==
    /\ now' = IF now % HalfPerHour = 0 THEN now + HalfPerHour - 1 ELSE now + 1
    /\ now' <= HalfPerHour * MaxHour
    /\ UNCHANGED <<ncfg, queue, delayed, LAST_MESSAGES, wk, cur, idx, lastEv,
                   enq, pings, pinged, interval, quiet>>
    /\ UNCHANGED sendVars
    /\ UNCHANGED schedVars
    /\ UNCHANGED scanVars
    /\ UNCHANGED storeVars

\* the notifier after NotificationQueue::new, at one of the given times and
\* under one of the given settings
NotifierStarts(times, settings) ==
    /\ now \in times
    /\ ncfg \in settings
    /\ queue = <<>>
    /\ delayed = {}
    /\ LAST_MESSAGES = [k \in Keys |-> Absent]
    /\ wk = "recv"
    /\ cur = NoMessage
    /\ idx = 0
    /\ lastEv = [k \in Keys |-> NoEvent]
    /\ enq = 0
    /\ pings = 0
    /\ pinged = 0
    /\ interval = NoInterval
    /\ quiet = <<>>
    /\ lastRes = [k \in Keys |-> "none"]
    /\ success_count = 0
    /\ fail_count = 0
    /\ sent = "none"
    /\ mtx = Unlocked
    /\ call = [c \in Callers |-> NoCall]

\* every endpoint answers the requests it gets with a success
EndpointsUp == down = {}

\* the process starts at 22:00
StartTime == HalfPerHour * (HoursPerDay - 2)

(***************************************************************************)
(* The quiet predicate on its own, for every start, end and hour           *)
(***************************************************************************)
Hours == 0..(HoursPerDay - 1)

\* let is_quiet_time = if start_hour > end_hour { .. } else { .. };
EvalQuiet ==
    /\ quiet = <<>>
    /\ quiet' = <<is_quiet_time(HourOf(now), ncfg.quiet_hours_start,
                                ncfg.quiet_hours_end)>>
    /\ UNCHANGED <<now, ncfg, queue, delayed, LAST_MESSAGES, wk, cur, idx,
                   lastEv, enq, pings, pinged, interval>>
    /\ UNCHANGED sendVars
    /\ UNCHANGED schedVars
    /\ UNCHANGED scanVars
    /\ UNCHANGED storeVars

(***************************************************************************)
(* The status codec and the Video and Page rows                            *)
(***************************************************************************)
\* operator requests handled in one behaviour
MaxOps == 2

\* STATUS_OK, the terminal value of a slot
STATUS_OK == 7

\* the highest failure counter of a slot
MaxFailures == 6

\* the values a 3-bit slot can hold
Radix == 8

\* the five subtask slots of a status word
Slots == 0..4

\* the slot of a Video that mirrors the pages, and the slot of a Page that
\* holds the video file
PagesSlot == 4
VideoFileSlot == 1

\* the weight of slot i in the packed word, slot 0 in the lowest 3 bits
Weight(i) == Radix ^ i

\* Status::get: the value of slot i of the word w
get(w, i) == (w \div Weight(i)) % Radix

\* Status::set: slot i of w replaced by v
set(w, i, v) == w - get(w, i) * Weight(i) + v * Weight(i)

\* <[u32; 5]>::from(status) and back: the word of five slot values
Pack(s) ==
    s[0] + s[1] * Weight(1) + s[2] * Weight(2) + s[3] * Weight(3)
         + s[4] * Weight(4)

Unpack(w) == [i \in Slots |-> get(w, i)]

\* a word with every slot at STATUS_OK
AllOk == Pack([i \in Slots |-> STATUS_OK])

Min(a, b) == IF a <= b THEN a ELSE b

\* ExecutionStatus: the result of a subtask, and the mask of a retry path
Skipped == [kind |-> "Skipped", v |-> 0]
SucceededRun == [kind |-> "Succeeded", v |-> 0]
Ignored == [kind |-> "Ignored", v |-> 0]
Failed == [kind |-> "Failed", v |-> 0]
Fixed(v) == [kind |-> "Fixed", v |-> v]

\* what a subtask that was run can return
Results == {Skipped, SucceededRun, Ignored, Failed}

\* a rule that counts failures without a ceiling
SlotAfter_NoCeiling(prev, r) ==
    CASE r.kind = "Failed" -> prev + 1
      [] r.kind = "Fixed" -> r.v
      [] OTHER -> STATUS_OK

\* the effect of one result on a slot holding prev
SlotAfter(prev, r) ==
    CASE r.kind = "Failed" -> Min(prev + 1, MaxFailures)
      [] r.kind = "Fixed" -> r.v
      [] OTHER -> STATUS_OK

\* Status::update_status: every slot advances by its result
update_status(w, results) ==
    Pack([i \in Slots |-> SlotAfter(get(w, i), results[i])])

\* Status::reset_failed: every failure counter goes back to 0
reset_failed(w) ==
    Pack([i \in Slots |->
            IF get(w, i) \in 1..MaxFailures THEN 0 ELSE get(w, i)])

\* Status::force_reset_failed: the failure counters go back to 0, and so do
\* the terminal slots of the classes a forced reset covers; the word does
\* not tell which these are, so either none or all of them are reset
force_reset_failed(w) == {reset_failed(w), 0}

\* a reset that leaves every word as it is
Resets_Kept(w, force) == {w}

\* (force && status.force_reset_failed()) || status.reset_failed(): the
\* words a reset can leave
Resets(w, force) ==
    IF force THEN force_reset_failed(w) ELSE {reset_failed(w)}

\* the ids a request can name
VideoIds == {1, 2}
PageIds == {1, 2}

\* video.single_page, a nullable boolean
SinglePage == {"null", "true", "false"}

\* no row under an id
NoVideo ==
    [exists |-> FALSE, download_status |-> 0, single_page |-> "null",
     should_download |-> TRUE, is_paid_video |-> FALSE, path |-> ""]

NoPage ==
    [exists |-> FALSE, video_id |-> 0, download_status |-> 0, path |-> ""]

\* a Video row as the scan inserts it, and a Page row of the video id
NewVideo(word, single) ==
    [exists |-> TRUE, download_status |-> word, single_page |-> single,
     should_download |-> TRUE, is_paid_video |-> FALSE, path |-> ""]

NewPage(id, word) ==
    [exists |-> TRUE, video_id |-> id, download_status |-> word, path |-> ""]

\* the Page rows of the video id
PagesOf(id) ==
    {p \in PageIds : pages[p].exists /\ pages[p].video_id = id}

\* no retry request in flight
NoRequest ==
    [kind |-> "none", id |-> 0, task_index |-> 0,
     video_model |-> NoVideo, page_model |-> NoPage]

\* no request answered yet
NoReply == [op |-> "none", status |-> "none", warning |-> FALSE]

\* the database holds the given rows, every video with a path has its
\* directory, and no request has been made
StoreStarts(videoRows, pageRows) ==
    /\ videos \in videoRows
    /\ pages \in pageRows
    /\ dirs = {v \in VideoIds : videos[v].exists /\ videos[v].path # ""}
    /\ req = NoRequest
    /\ reply = NoReply
    /\ ops = 0

\* the store is not looked at: one fresh video with one fresh page
StoreIdle ==
    StoreStarts({[v \in VideoIds |->
                    IF v = 1 THEN NewVideo(0, "true") ELSE NoVideo]},
                {[p \in PageIds |->
                    IF p = 1 THEN NewPage(1, 0) ELSE NoPage]})

(***************************************************************************)
(* The operator endpoints on videos and pages                              *)
(***************************************************************************)
\* a validation that lets a sixth slot through
status_index_Unchecked == 0..5

\* StatusUpdate.status_index: #[validate(range(min = 0, max = 4))]
status_index == 0..4

\* StatusUpdate.status_value, as validate_status_value lets it through
status_value == 0..STATUS_OK

\* Option<bool> of a request
OptionBool == {"None", "Some(true)", "Some(false)"}

\* the requests handled so far stay within the bound
MoreOps == ops < MaxOps

\* for update in updates { status.set(update.status_index, update.status_value) }
RECURSIVE SetAll(_, _)
SetAll(w, updates) ==
    IF updates = <<>> THEN w
    ELSE SetAll(set(w, Head(updates).status_index, Head(updates).status_value),
                Tail(updates))

\* the answer of a request that found the rows it names
Done(op) == [op |-> op, status |-> "Ok", warning |-> FALSE]

\* InnerApiError::NotFound(id)
NotFound(op) == [op |-> op, status |-> "NotFound", warning |-> FALSE]

\* a reset that leaves one failure in slot 4 of a video whose page was reset
VideoWordAfterReset_OneFailure(word, page_resetted) ==
    IF page_resetted THEN set(word, PagesSlot, 1) ELSE word

\* a reset that leaves slot 4 of the video as the video's own reset left it
VideoWordAfterReset_SlotKept(word, page_resetted) == word

\* if !resetted_pages_info.is_empty() { video_status.set(4, 0) }
VideoWordAfterReset(word, page_resetted) ==
    IF page_resetted THEN set(word, PagesSlot, 0) ELSE word

\* the answer of a reset on the videos ids: resetted, and the rows that its
\* one transaction wrote; no transaction is begun when both sets are empty
ResetDone(op, ids, force, written_videos, written_pages) ==
    [op |-> op, status |-> "Ok", warning |-> FALSE, ids |-> ids,
     force |-> force,
     resetted |-> written_videos # {} \/ written_pages # {},
     videos |-> written_videos, pages |-> written_pages]

\* the body the two resets share: the pages of the selected videos whose
\* reset changed them, the videos whose reset changed them or that have
\* such a page, and the write of both in one transaction
ResetRows(op, selected, force) ==
    LET all_pages == UNION {PagesOf(v) : v \in selected} IN
    \E after \in [all_pages ->
                    UNION {Resets(pages[p].download_status, force) :
                              p \in all_pages}] :
    \E word \in [selected ->
                    UNION {Resets(videos[v].download_status, force) :
                              v \in selected}] :
      /\ \A p \in all_pages :
            after[p] \in Resets(pages[p].download_status, force)
      /\ \A v \in selected :
            word[v] \in Resets(videos[v].download_status, force)
      /\ LET resetted_pages ==
                 {p \in all_pages : after[p] # pages[p].download_status}
             with_pages ==
                 {v \in selected : PagesOf(v) \cap resetted_pages # {}}
             resetted_videos ==
                 {v \in selected : word[v] # videos[v].download_status}
                     \cup with_pages
         IN  /\ pages' = [p \in PageIds |->
                            IF p \in resetted_pages
                              THEN [pages[p] EXCEPT
                                      !.download_status = after[p]]
                              ELSE pages[p]]
             /\ videos' = [v \in VideoIds |->
                             IF v \in resetted_videos
                               THEN [videos[v] EXCEPT !.download_status =
                                       VideoWordAfterReset(word[v],
                                                           v \in with_pages)]
                               ELSE videos[v]]
             /\ reply' = ResetDone(op, selected, force, resetted_videos,
                                   resetted_pages)

\* POST /videos/{id}/reset-status: every page of the video is reset, the
\* video is reset, and the video's slot 4 goes to 0 when a page was reset
reset_video_status(id, force) ==
    /\ MoreOps
    /\ req.kind = "none"
    /\ ops' = ops + 1
    /\ IF ~videos[id].exists
         THEN /\ reply' = NotFound("reset-status")
              /\ UNCHANGED <<videos, pages>>
         ELSE ResetRows("reset-status", {id}, force)
    /\ UNCHANGED <<dirs, req>>
    /\ UNCHANGED schedVars
    /\ UNCHANGED notifyVars
    /\ UNCHANGED scanVars

\* POST /videos/reset-status: the same for every video the filter selects
\* and for every page of these videos
reset_filtered_video_status(selected, force) ==
    /\ MoreOps
    /\ req.kind = "none"
    /\ ops' = ops + 1
    /\ ResetRows("reset-filtered-status",
                 {v \in selected : videos[v].exists}, force)
    /\ UNCHANGED <<dirs, req>>
    /\ UNCHANGED schedVars
    /\ UNCHANGED notifyVars
    /\ UNCHANGED scanVars

\* a clear-and-reset that leaves the Page rows in place
PagesAfterClear_Kept(id) == pages

\* page::Entity::delete_many().filter(VideoId.eq(id))
PagesAfterClear(id) ==
    [p \in PageIds |-> IF p \in PagesOf(id) THEN NoPage ELSE pages[p]]

\* POST /videos/{id}/clear-and-reset-status: the row update and the delete
\* of the pages are one transaction, which commits or fails as a whole; the
\* directory is removed afterwards, and a failure to remove it is a warning
clear_and_reset_video_status(id, committed, removed) ==
    /\ MoreOps
    /\ req.kind = "none"
    /\ ops' = ops + 1
    /\ IF ~videos[id].exists
         THEN /\ reply' = NotFound("clear-and-reset-status")
              /\ UNCHANGED <<videos, pages, dirs>>
         ELSE IF ~committed
           THEN /\ reply' = [op |-> "clear-and-reset-status",
                             status |-> "Err", warning |-> FALSE]
                /\ UNCHANGED <<videos, pages, dirs>>
           ELSE /\ videos' = [videos EXCEPT ![id].single_page = "null",
                                            ![id].download_status = 0]
                /\ pages' = PagesAfterClear(id)
                /\ dirs' = IF removed THEN dirs \ {id} ELSE dirs
                /\ reply' = [op |-> "clear-and-reset-status",
                             status |-> "Ok",
                             warning |-> ~removed \/ id \notin dirs]
    /\ UNCHANGED req
    /\ UNCHANGED schedVars
    /\ UNCHANGED notifyVars
    /\ UNCHANGED scanVars

\* the flags of a Video row after the should_download and is_paid_video
\* fields of a request were applied
FlagsAfter(row, should_download, is_paid_video) ==
    LET asked == IF should_download = "None" THEN row.should_download
                 ELSE should_download = "Some(true)"
        paid == IF is_paid_video = "None" THEN row.is_paid_video
                ELSE is_paid_video = "Some(true)"
    IN  [row EXCEPT !.is_paid_video = paid,
                    !.should_download =
                        IF is_paid_video = "Some(true)" THEN FALSE ELSE asked]

\* POST /videos/{id}/update-status: the video's slots and the slots of the
\* named pages of the video are set as requested, and the flags are written
update_video_status(id, video_updates, page_updates, should_download, is_paid_video) ==
    /\ MoreOps
    /\ req.kind = "none"
    /\ ops' = ops + 1
    /\ IF ~videos[id].exists
         THEN /\ reply' = NotFound("update-status")
              /\ UNCHANGED <<videos, pages>>
         ELSE LET video_status ==
                      SetAll(videos[id].download_status, video_updates)
                  named == {i \in 1..Len(page_updates) :
                               page_updates[i].page_id \in PagesOf(id)}
                  updated == {page_updates[i].page_id : i \in named}
                  page_status(p) ==
                      LET i == CHOOSE j \in named :
                                   page_updates[j].page_id = p
                      IN  SetAll(pages[p].download_status,
                                 page_updates[i].updates)
                  written ==
                      IF video_updates # <<>>
                        THEN [videos[id] EXCEPT
                                !.download_status = video_status]
                        ELSE videos[id]
              IN  /\ videos' = [videos EXCEPT ![id] =
                                  FlagsAfter(written, should_download,
                                             is_paid_video)]
                  /\ pages' = [p \in PageIds |->
                                 IF p \in updated
                                   THEN [pages[p] EXCEPT
                                           !.download_status = page_status(p)]
                                   ELSE pages[p]]
                  /\ reply' = Done("update-status")
    /\ UNCHANGED <<dirs, req>>
    /\ UNCHANGED schedVars
    /\ UNCHANGED notifyVars
    /\ UNCHANGED scanVars

\* POST /videos/update-status: the same updates for every video the filter
\* selects and for every page of these videos
update_filtered_video_status(selected, video_updates, page_updates, should_download, is_paid_video) ==
    /\ MoreOps
    /\ req.kind = "none"
    /\ ops' = ops + 1
    /\ LET all_videos == {v \in selected : videos[v].exists}
           all_pages == UNION {PagesOf(v) : v \in all_videos}
           written(v) ==
               [videos[v] EXCEPT !.download_status =
                   SetAll(videos[v].download_status, video_updates)]
       IN  /\ videos' = [v \in VideoIds |->
                           IF v \in all_videos
                             THEN FlagsAfter(written(v), should_download,
                                             is_paid_video)
                             ELSE videos[v]]
           /\ pages' = [p \in PageIds |->
                          IF p \in all_pages
                            THEN [pages[p] EXCEPT !.download_status =
                                    SetAll(pages[p].download_status,
                                           page_updates)]
                            ELSE pages[p]]
    /\ reply' = Done("update-filtered-status")
    /\ UNCHANGED <<dirs, req>>
    /\ UNCHANGED schedVars
    /\ UNCHANGED notifyVars
    /\ UNCHANGED scanVars

\* a mask that passes slot 0 as it was and leaves the others at 0
Masked_OnlyFirst(w, task_index, r) ==
    [i \in Slots |->
        IF i = task_index THEN r
        ELSE Fixed(IF i = 0 THEN get(w, 0) ELSE 0)]

\* all_results of a retry: Fixed(current) in every slot but task_index,
\* which carries the result of the subtask
Masked(w, task_index, r) ==
    [i \in Slots |-> IF i = task_index THEN r ELSE Fixed(get(w, i))]

\* a cycle that runs every subtask, whatever its slot holds
Attempted_Always(w, results) == results

\* a subtask of a cycle first checks its slot: a terminal slot is Skipped,
\* any other slot is run and gets its result
Attempted(w, results) ==
    [i \in Slots |-> IF get(w, i) = STATUS_OK THEN Skipped ELSE results[i]]

\* the five subtasks of a page in a cycle
RunPage(w, results) == update_status(w, Attempted(w, results))

\* the result vectors a run is looked at with: every subtask of a row
\* returns the same kind of result
Uniform == {[i \in Slots |-> r] : r \in Results}

\* the minimum of slot 1 over the given page words, from STATUS_OK down
RECURSIVE MinStatus(_)
MinStatus(words) ==
    IF words = {} THEN STATUS_OK
    ELSE LET w == CHOOSE x \in words : TRUE
         IN  Min(get(w, VideoFileSlot), MinStatus(words \ {w}))

\* an aggregate taken from the Page rows as they were before the save
min_status_BeforeSave(rows, id) ==
    MinStatus({pages[p].download_status :
                 p \in {q \in PageIds :
                          pages[q].exists /\ pages[q].video_id = id}})

\* the slot-1 minimum over the Page rows of the video id in the table rows
min_status(rows, id) ==
    MinStatus({rows[p].download_status :
                 p \in {q \in PageIds :
                          rows[q].exists /\ rows[q].video_id = id}})

\* the Page rows after the pages of the video id ran with the given results
PagesAfterRun(id, page_results) ==
    [p \in PageIds |->
        IF p \in PagesOf(id)
          THEN [pages[p] EXCEPT
                  !.download_status = RunPage(@, page_results[p]),
                  !.path = IF get(RunPage(pages[p].download_status,
                                          page_results[p]),
                                  VideoFileSlot) = STATUS_OK
                              /\ get(pages[p].download_status,
                                     VideoFileSlot) # STATUS_OK
                             THEN "file" ELSE @]
          ELSE pages[p]]

\* dispatch_download_page(true, ..): the pages run, and the result is
\* Succeeded when every page holds its video file and Failed otherwise
dispatch_result(rows, id) ==
    IF min_status(rows, id) = STATUS_OK THEN SucceededRun ELSE Failed

\* a subtask that ran and did not fail or get skipped wrote to the directory
Wrote(r) == r.kind = "Succeeded"

\* retry_video_task, up to the call of the subtask: the Video row is read.
\* A handler is followed from its reads to its writes with no other request
\* in between.
RetryVideoBegin(id, task_index) ==
    /\ MoreOps
    /\ req.kind = "none"
    /\ ops' = ops + 1
    /\ IF ~videos[id].exists
         THEN reply' = NotFound("retry-video") /\ UNCHANGED req
         ELSE IF videos[id].single_page = "null"
           THEN /\ reply' = [op |-> "retry-video", status |-> "BadRequest",
                             warning |-> FALSE]
                /\ UNCHANGED req
           ELSE /\ req' = [kind |-> "video", id |-> id,
                           task_index |-> task_index,
                           video_model |-> videos[id], page_model |-> NoPage]
                /\ UNCHANGED reply
    /\ UNCHANGED <<videos, pages, dirs>>
    /\ UNCHANGED schedVars
    /\ UNCHANGED notifyVars
    /\ UNCHANGED scanVars

\* retry_video_task, from the result of the subtask on: the result goes
\* into its slot of the word that was read, and the row is saved
RetryVideoFinish(r, page_results) ==
    /\ req.kind = "video"
    /\ req' = NoRequest
    /\ LET id == req.id
           ran == IF req.task_index = PagesSlot
                    THEN PagesAfterRun(id, page_results)
                    ELSE pages
           result_status == IF req.task_index = PagesSlot
                       THEN dispatch_result(ran, id)
                       ELSE r
           word == update_status(req.video_model.download_status,
                     Masked(req.video_model.download_status,
                            req.task_index, result_status))
       IN  /\ pages' = ran
           /\ IF videos[id].exists
                THEN /\ videos' = [videos EXCEPT
                         ![id].download_status = word,
                         ![id].path = IF req.video_model.path = ""
                                        THEN "dir" ELSE @]
                     /\ reply' = Done("retry-video")
                ELSE /\ UNCHANGED videos
                     /\ reply' = NotFound("retry-video")
           /\ dirs' = IF Wrote(result_status) THEN dirs \cup {id} ELSE dirs
    /\ UNCHANGED ops
    /\ UNCHANGED schedVars
    /\ UNCHANGED notifyVars
    /\ UNCHANGED scanVars

\* retry_page_task, up to the call of the subtask: the Page row and its
\* Video row are read
RetryPageBegin(id, task_index) ==
    /\ MoreOps
    /\ req.kind = "none"
    /\ ops' = ops + 1
    /\ IF ~pages[id].exists \/ ~videos[pages[id].video_id].exists
         THEN reply' = NotFound("retry-page") /\ UNCHANGED req
         ELSE IF videos[pages[id].video_id].single_page = "null"
           THEN /\ reply' = [op |-> "retry-page", status |-> "BadRequest",
                             warning |-> FALSE]
                /\ UNCHANGED req
           ELSE /\ req' = [kind |-> "page", id |-> id,
                           task_index |-> task_index,
                           video_model |-> videos[pages[id].video_id],
                           page_model |-> pages[id]]
                /\ UNCHANGED reply
    /\ UNCHANGED <<videos, pages, dirs>>
    /\ UNCHANGED schedVars
    /\ UNCHANGED notifyVars
    /\ UNCHANGED scanVars

\* retry_page_task, from the result of the subtask on: the result goes into
\* its slot of the page word that was read and the row is saved; for
\* task_index 1 the video's slot 4 becomes the slot-1 minimum of the pages
\* as they are stored then
RetryPageFinish(r) ==
    /\ req.kind = "page"
    /\ req' = NoRequest
    /\ LET id == req.id
           video_id == req.page_model.video_id
           word == update_status(req.page_model.download_status,
                     Masked(req.page_model.download_status,
                            req.task_index, r))
           saved == [pages EXCEPT ![id].download_status = word,
                                  ![id].path = "file"]
       IN  IF ~pages[id].exists
             THEN /\ reply' = [op |-> "retry-page", status |-> "Err",
                               warning |-> FALSE]
                  /\ UNCHANGED <<videos, pages>>
             ELSE /\ pages' = saved
                  /\ IF req.task_index = VideoFileSlot
                       THEN IF videos[video_id].exists
                         THEN /\ videos' = [videos EXCEPT
                                   ![video_id].download_status =
                                       set(req.video_model.download_status,
                                           PagesSlot,
                                           min_status(saved, video_id))]
                              /\ reply' = Done("retry-page")
                         ELSE /\ UNCHANGED videos
                              /\ reply' = [op |-> "retry-page",
                                           status |-> "Err",
                                           warning |-> FALSE]
                       ELSE /\ UNCHANGED videos
                            /\ reply' = Done("retry-page")
    /\ dirs' = IF Wrote(r) /\ pages[req.id].exists
                 THEN dirs \cup {req.page_model.video_id} ELSE dirs
    /\ UNCHANGED ops
    /\ UNCHANGED schedVars
    /\ UNCHANGED notifyVars
    /\ UNCHANGED scanVars

\* the smallest id without a Page row
FreePage == CHOOSE p \in PageIds :
               ~pages[p].exists /\ \A q \in PageIds : ~pages[q].exists => p <= q

\* the Page rows at the start of the workflow of the video id: the page list
\* is materialized when single_page is not yet determined
Materialized(id) ==
    IF videos[id].single_page = "null" /\ PagesOf(id) = {}
         /\ \E p \in PageIds : ~pages[p].exists
      THEN [pages EXCEPT ![FreePage] = NewPage(id, 0)]
      ELSE pages

\* the workflow of one cycle for the video id: nothing for a video that is
\* not to be downloaded; otherwise the four video subtasks and the subtasks
\* of every page run unless their slot is terminal, slot 4 becomes the
\* slot-1 minimum of the pages, and the rows are persisted together
run_cycle(id, video_results, page_results) ==
    /\ MoreOps
    /\ ops' = ops + 1
    /\ videos[id].exists
    /\ IF ~videos[id].should_download \/ videos[id].is_paid_video
         THEN UNCHANGED <<videos, pages, dirs>>
         ELSE LET listed == Materialized(id)
                  mine == {p \in PageIds :
                             listed[p].exists /\ listed[p].video_id = id}
                  ran == [p \in PageIds |->
                            IF p \in mine
                              THEN [listed[p] EXCEPT
                                      !.download_status =
                                          RunPage(@, page_results[p]),
                                      !.path =
                                          IF get(RunPage(
                                                   listed[p].download_status,
                                                   page_results[p]),
                                                 VideoFileSlot) = STATUS_OK
                                             /\ get(listed[p].download_status,
                                                    VideoFileSlot) # STATUS_OK
                                            THEN "file" ELSE @]
                              ELSE listed[p]]
                  before == videos[id].download_status
                  subtasks ==
                      [i \in Slots |->
                          IF i = PagesSlot
                            THEN Fixed(min_status(ran, id))
                            ELSE Attempted(before, video_results)[i]]
                  word == update_status(before, subtasks)
                  progress ==
                      \/ \E i \in Slots \ {PagesSlot} :
                            get(before, i) # STATUS_OK
                               /\ Wrote(video_results[i])
                      \/ \E p \in mine : \E i \in Slots :
                            get(listed[p].download_status, i) # STATUS_OK
                               /\ Wrote(page_results[p][i])
              IN  /\ pages' = ran
                  /\ videos' = [videos EXCEPT
                        ![id].download_status = word,
                        ![id].single_page =
                            IF @ = "null"
                              THEN (IF Cardinality(mine) > 1
                                      THEN "false" ELSE "true")
                              ELSE @,
                        ![id].path = IF @ = "" /\ word # before
                                       THEN "dir" ELSE @]
                  /\ dirs' = IF progress THEN dirs \cup {id} ELSE dirs
    /\ UNCHANGED <<req, reply>>
    /\ UNCHANGED schedVars
    /\ UNCHANGED notifyVars
    /\ UNCHANGED scanVars

\* the cycle of the download job, with no operator request in flight
download_video_pages(id, video_results, page_results) ==
    /\ req.kind = "none"
    /\ run_cycle(id, video_results, page_results)

\* the same cycle while a retry request waits for its subtask
OverlappedCycle(id, video_results, page_results) ==
    /\ req.kind # "none"
    /\ run_cycle(id, video_results, page_results)

\* a second retry_video_task on one of the four own subtasks of the video,
\* from its read to its save, while another retry waits for its subtask
OverlappedRetryVideo(id, task_index, r) ==
    /\ MoreOps
    /\ req.kind # "none"
    /\ ops' = ops + 1
    /\ task_index # PagesSlot
    /\ videos[id].exists
    /\ videos[id].single_page # "null"
    /\ videos' = [videos EXCEPT
          ![id].download_status =
              update_status(@, Masked(@, task_index, r)),
          ![id].path = IF @ = "" THEN "dir" ELSE @]
    /\ dirs' = IF Wrote(r) THEN dirs \cup {id} ELSE dirs
    /\ reply' = Done("retry-video")
    /\ UNCHANGED <<pages, req>>
    /\ UNCHANGED schedVars
    /\ UNCHANGED notifyVars
    /\ UNCHANGED scanVars

\* a second retry_page_task on a subtask other than the video file, from
\* its read to its save, while another retry waits for its subtask
OverlappedRetryPage(id, task_index, r) ==
    /\ MoreOps
    /\ req.kind # "none"
    /\ ops' = ops + 1
    /\ task_index # VideoFileSlot
    /\ pages[id].exists
    /\ videos[pages[id].video_id].exists
    /\ videos[pages[id].video_id].single_page # "null"
    /\ pages' = [pages EXCEPT
          ![id].download_status =
              update_status(@, Masked(@, task_index, r)),
          ![id].path = "file"]
    /\ dirs' = IF Wrote(r) THEN dirs \cup {pages[id].video_id} ELSE dirs
    /\ reply' = Done("retry-page")
    /\ UNCHANGED <<videos, req>>
    /\ UNCHANGED schedVars
    /\ UNCHANGED notifyVars
    /\ UNCHANGED scanVars

(***************************************************************************)
(* download_video: one scan of the enabled video sources                   *)
(***************************************************************************)
\* enabled video sources a cycle may find
MaxSources == 3

\* the variants of VideoSourceEnum
SourceKinds == {"collection", "favorite", "submission", "watch_later"}

\* what process_video_source can return: Ok, an error that is a
\* risk-control BiliError, or any other error
SourceOutcomes == {"ok", "risk_control", "error"}

\* the snapshots a cycle may run with: the interval trigger is valid or not,
\* notifiers are configured or not
ScanConfigs == [interval : {60, 300}, notifiers : BOOLEAN]

\* total_*: the number of sources of kind k
Total(k) ==
    Cardinality({i \in 1..Len(video_sources) : video_sources[i] = k})

NoCounts == [k \in SourceKinds |-> 0]

\* remaining_sources.iter().skip(index): every source from the 0-based
\* position index on adds one to the counter of its kind
RiskControlCounts(index) ==
    [k \in SourceKinds |->
        Cardinality({i \in (index + 1)..Len(video_sources) :
                        video_sources[i] = k})]

\* stats_parts: one part per kind that has sources; the pending count is
\* printed when it is not 0
StatsParts ==
    {[kind |-> k, succeeded |-> succeeded[k], total |-> Total(k),
      pending |-> risk_control[k]] : k \in {j \in SourceKinds : Total(j) > 0}}

\* utils::notify::notify: the message goes to NOTIFICATION_QUEUE when the
\* snapshot has notifiers, and nowhere otherwise
utils_notify(c, msg) ==
    IF c.notifiers
      THEN /\ enq' = enq + 1
           /\ queue' = Append(queue, [id |-> enq', body |-> msg])
      ELSE UNCHANGED <<enq, queue>>

notifyRest == <<now, ncfg, delayed, LAST_MESSAGES, wk, cur, idx, lastEv,
                pings, pinged, interval, quiet, sendVars>>

\* config.check().context(..)?
ScanCheck ==
    /\ scanPc = "check"
    /\ IF check(scfg)
         THEN scanPc' = "sources" /\ UNCHANGED ret
         ELSE scanPc' = "done" /\ ret' = "Err"
    /\ UNCHANGED <<scfg, video_sources, outcomes, succeeded, risk_control,
                   risk_control_triggered>>
    /\ UNCHANGED <<enq, queue>>
    /\ UNCHANGED notifyRest
    /\ UNCHANGED storeVars
    /\ UNCHANGED schedVars

\* wbi_img, bili_client.snapshot and get_enabled_video_sources: one of them
\* fails, or the source list is there; an empty list is notified and is an
\* error
LoadSources ==
    /\ scanPc = "sources"
    /\ \/ /\ scanPc' = "done"
          /\ ret' = "Err"
          /\ UNCHANGED <<enq, queue>>
       \/ /\ video_sources = <<>>
          /\ utils_notify(scfg, [tag |-> "no_source"])
          /\ scanPc' = "done"
          /\ ret' = "Err"
       \/ /\ video_sources # <<>>
          /\ scanPc' = "loop"
          /\ UNCHANGED <<enq, queue, ret>>
    /\ UNCHANGED <<scfg, video_sources, outcomes, succeeded, risk_control,
                   risk_control_triggered>>
    /\ UNCHANGED notifyRest
    /\ UNCHANGED storeVars
    /\ UNCHANGED schedVars

\* a loop in which a risk-control error is handled like any other error
AfterSource_NoAbort(o) ==
    IF Len(outcomes) + 1 = Len(video_sources) THEN "stats" ELSE "loop"

\* where the loop goes after the source with outcome o: a risk-control error
\* breaks out of it, the last source ends it
AfterSource(o) ==
    IF o = "risk_control" \/ Len(outcomes) + 1 = Len(video_sources)
      THEN "stats"
      ELSE "loop"

\* a counter that also counts a source whose processing failed
SucceededAfter_CountsErrors(o, kind) ==
    IF o \in {"ok", "error"}
      THEN [succeeded EXCEPT ![kind] = @ + 1]
      ELSE succeeded

\* succeeded_* after the source of the given kind returned o
SucceededAfter(o, kind) ==
    IF o = "ok" THEN [succeeded EXCEPT ![kind] = @ + 1] ELSE succeeded

\* counters that leave out the source that hit risk control
RiskControlAfter_SkipCurrent(o, index) ==
    IF o = "risk_control" THEN RiskControlCounts(index + 1) ELSE risk_control

\* risk_control_* after the source at 0-based position index returned o
RiskControlAfter(o, index) ==
    IF o = "risk_control" THEN RiskControlCounts(index) ELSE risk_control

\* one iteration of the loop over video_sources
ProcessSource(o) ==
    /\ scanPc = "loop"
    /\ LET index == Len(outcomes)
           kind == video_sources[index + 1]
       IN  /\ outcomes' = Append(outcomes, o)
           /\ succeeded' = SucceededAfter(o, kind)
           /\ risk_control' = RiskControlAfter(o, index)
           /\ risk_control_triggered' =
                 (risk_control_triggered \/ o = "risk_control")
           /\ IF o = "error"
                THEN utils_notify(scfg, [tag |-> "source_error",
                                         index |-> index])
                ELSE UNCHANGED <<enq, queue>>
           /\ scanPc' = AfterSource(o)
    /\ UNCHANGED <<scfg, video_sources, ret>>
    /\ UNCHANGED notifyRest
    /\ UNCHANGED storeVars
    /\ UNCHANGED schedVars

\* the statistics are formatted and notified, and download_video returns Ok
SendStats ==
    /\ scanPc = "stats"
    /\ utils_notify(scfg, [tag |-> "stats", parts |-> StatsParts])
    /\ ret' = "Ok"
    /\ scanPc' = "done"
    /\ UNCHANGED <<scfg, video_sources, outcomes, succeeded, risk_control,
                   risk_control_triggered>>
    /\ UNCHANGED notifyRest
    /\ UNCHANGED storeVars
    /\ UNCHANGED schedVars

\* sequences over S of length 0..n
RECURSIVE SeqsUpTo(_, _)
SeqsUpTo(S, n) ==
    IF n = 0 THEN {<<>>}
    ELSE LET shorter == SeqsUpTo(S, n - 1)
         IN  shorter \cup {Append(q, x) : q \in shorter, x \in S}

\* download_video is entered with one of the given snapshots and source lists
ScanStarts(snapshots, lists) ==
    /\ scfg \in snapshots
    /\ video_sources \in lists
    /\ scanPc = "check"
    /\ outcomes = <<>>
    /\ succeeded = NoCounts
    /\ risk_control = NoCounts
    /\ risk_control_triggered = FALSE
    /\ ret = "none"

\* no scan is looked at: a valid snapshot and no sources
ScanIdle ==
    ScanStarts({[interval |-> 300, notifiers |-> FALSE]}, {<<>>})

ScanInit ==
    /\ SchedInit
    /\ video_task_id # None
    /\ NotifierStarts({StartTime}, {DefaultNotifyConfig})
    /\ EndpointsUp
    /\ ScanStarts(ScanConfigs, SeqsUpTo(SourceKinds, MaxSources))
    /\ StoreIdle

ScanNext ==
    \/ ScanCheck
    \/ LoadSources
    \/ \E o \in SourceOutcomes : ProcessSource(o)
    \/ SendStats

ScanSpec == ScanInit /\ [][ScanNext]_vars

(***************************************************************************)
(* Specifications                                                          *)
(***************************************************************************)
Init ==
    /\ SchedInit
    /\ NotifierStarts({StartTime}, {DefaultNotifyConfig})
    /\ EndpointsUp
    /\ ScanIdle
    /\ StoreIdle

Next ==
    \/ \E p \in Procs : Tick(p)
    \/ \E p \in Procs : download_once(p)
    \/ \E p \in Procs : Download(p)
    \/ \E p \in Procs : ReadTaskUuid(p)
    \/ \E p \in Procs : Exit(p)
    \/ UpdateConfig
    \/ WatcherChanged
    \/ WatcherRemove
    \/ WatcherAdd
    \/ WatcherSummary
    \/ Shutdown
    \/ \E i \in Uuids : RefreshRead(i)
    \/ \E i \in Uuids : RefreshSend(i)
    \/ CredTick
    \/ CredDone

Spec == Init /\ [][Next]_vars

\* every spawned future is polled again once it can make progress, and the
\* watcher task runs whenever a change is pending
Fairness ==
    /\ \A p \in Procs : WF_vars(Download(p))
    /\ \A p \in Procs : WF_vars(ReadTaskUuid(p))
    /\ \A p \in Procs : WF_vars(Exit(p))
    /\ WF_vars(WatcherChanged)
    /\ WF_vars(WatcherRemove)
    /\ WF_vars(WatcherAdd)
    /\ WF_vars(WatcherSummary)

\* the cycles and the config watcher alone: the other jobs neither enable
\* nor disable a step of a cycle
CycleNext ==
    \/ \E p \in Procs : Tick(p)
    \/ \E p \in Procs : download_once(p)
    \/ \E p \in Procs : Download(p)
    \/ \E p \in Procs : ReadTaskUuid(p)
    \/ \E p \in Procs : Exit(p)
    \/ UpdateConfig
    \/ WatcherChanged
    \/ WatcherRemove
    \/ WatcherAdd
    \/ WatcherSummary
    \/ Shutdown

FairSpec == Init /\ [][CycleNext]_vars /\ Fairness

\* everything that takes or releases the `running` mutex, and the watcher:
\* the refresh_next_run jobs, which only republish the status, are left out
LockNext ==
    \/ CycleNext
    \/ CredTick
    \/ CredDone

LockSpec == Init /\ [][LockNext]_vars

\* the notifier: producers, the queue worker, the test endpoint and the
\* clock, beside a task manager whose first download job was added
NotifyInit ==
    /\ SchedInit
    /\ video_task_id # None
    /\ NotifierStarts({StartTime}, NotifyConfigs)
    /\ EndpointsUp
    /\ ScanIdle
    /\ StoreIdle

NotifyNext ==
    \/ \E b \in Bodies : enqueue(b)
    \/ \E i \in 1..Len(Notifiers) : ping_notifiers(i)
    \/ Pop
    \/ Dispatch
    \/ Sleep
    \/ Requeue
    \/ AdvanceTime

NotifySpec == NotifyInit /\ [][NotifyNext]_vars

\* one evaluation of the quiet predicate for any settings and hour
QuietInit ==
    /\ SchedInit
    /\ NotifierStarts({HalfPerHour * h : h \in Hours},
                      [enable_notification_quiet_hours : {TRUE},
                       quiet_hours_start : Hours, quiet_hours_end : Hours,
                       notification_interval : {5}])
    /\ EndpointsUp
    /\ ScanIdle
    /\ StoreIdle

QuietSpec == QuietInit /\ [][EvalQuiet]_vars
(***************************************************************************)
(* Properties of the single-flight lock                                    *)
(***************************************************************************)
\* the future p is inside a download cycle (it holds _lock)
Executing(p) == pc[p] \in {"download", "task_uuid", "exit"}

\* C1: at any instant at most one download cycle is executing, and the
\* executing cycle is the holder of the `running` mutex
C1_SingleFlight ==
    \A p, q \in Procs :
        Executing(p) /\ Executing(q) => p = q /\ running = p

\* a cycle of the rebuilt job executes while another tick has been skipped
C1_Witness ==
    \E p, q \in Procs :
        /\ Executing(p)
        /\ pc[q] = "skipped"
        /\ uuid[p] = DownloadUuid(1)

\* C2: a tick that finds the lock busy ends at once: it does not enter the
\* cycle, the lock, the published status and the clock stay as they were,
\* and a skipped tick is not started when the lock is released
C2_BusyTickSkipped ==
    [][\A p \in Procs :
          /\ (pc[p] \in {"idle", "skipped"} /\ pc'[p] # pc[p] /\ running # Free)
                => /\ pc'[p] = "skipped"
                   /\ UNCHANGED <<running, status, clock, result, uuid,
                                   task_uuid>>
          /\ (pc[p] = "skipped" /\ running # Free /\ running' # running)
                => pc'[p] = "skipped" /\ running' # p]_vars

\* a tick has been skipped while the cycle that holds the lock is running
C2_Witness ==
    \E p, q \in Procs :
        /\ pc[p] = "skipped"
        /\ running = q
        /\ status.is_running
        /\ status.last_run # None

\* the cycle of p has published its end and released the lock
Finished(p) ==
    /\ pc[p] = "idle"
    /\ running # p
    /\ ~status.is_running
    /\ status.last_finish # None

\* C3: a cycle that acquires the lock publishes is_running = true with
\* last_run set in the same stretch, and whatever download_video returns it
\* eventually publishes is_running = false with last_finish set and
\* releases the lock
C3_CyclePublishes ==
    /\ [][\A p \in Procs :
            (~Executing(p) /\ Executing(p)')
               => status'.is_running /\ status'.last_run # None
                    /\ running' = p]_vars
    /\ \A p \in Procs : Executing(p) ~> Finished(p)

\* a cycle whose download_video returned an error is about to publish its end
C3_Witness ==
    \E p \in Procs : pc[p] = "exit" /\ result[p] = "Err" /\ running = p

(***************************************************************************)
(* Properties of the config watcher                                        *)
(***************************************************************************)
DownloadJobs == {j \in sched : j.kind = "download"}
SummaryJobs == {j \in sched : j.kind = "summary"}

\* the watcher has processed at least one change and waits for the next
Processed == wPc = "wait" /\ rxSeen > 0

\* C4: the scheduler never holds more than one recurring download job, a
\* registered download job is the one whose uuid is stored in video_task_id,
\* and after a processed change the stored uuid is that of a job built from
\* the new interval, or None with no download job registered
C4_OneDownloadJob ==
    /\ Cardinality(DownloadJobs) <= 1
    /\ \A j \in DownloadJobs : j.id = video_task_id
    /\ Processed =>
          \/ video_task_id = None /\ DownloadJobs = {}
          \/ /\ video_task_id = DownloadUuid(rxSeen)
             /\ DownloadJobs = {DownloadJob(video_task_id, new_config.interval)}

\* the interval job of new() has been replaced by a cron job
C4_Witness ==
    /\ Processed
    /\ video_task_id = DownloadUuid(1)
    /\ DownloadJobs = {DownloadJob(DownloadUuid(1), "CronHourly")}

\* C5: no step of the config watcher touches a cycle (its position, the
\* lock, the published status), and a cycle in flight while the watcher
\* rebuilds the jobs still runs to its end and publishes is_running = false
C5_ReloadKeepsCycle ==
    /\ [][wPc' # wPc => UNCHANGED <<running, pc, result, status>>]_vars
    /\ \A p \in Procs :
          (Executing(p) /\ wPc \in {"remove", "add", "summary"}) ~> Finished(p)

\* a cycle started by the job of new() reads the uuid of the rebuilt job:
\* the reload happened while it was in flight, and it goes on
C5_Witness ==
    \E p \in Procs :
        /\ pc[p] = "exit"
        /\ running = p
        /\ uuid[p] = DownloadUuid(0)
        /\ task_uuid[p] = DownloadUuid(1)
        /\ DownloadJobs = {DownloadJob(DownloadUuid(1), new_config.interval)}

\* C6: after a processed change a daily-summary job is registered iff the
\* new config has notify_daily_summary, and daily_summary_task_id is the
\* uuid of that job, None when no job is registered
C6_SummaryJobMatchesConfig ==
    Processed =>
        /\ (SummaryJobs # {}) <=> new_config.notify_daily_summary
        /\ IF SummaryJobs = {}
             THEN daily_summary_task_id = None
             ELSE SummaryJobs = {SummaryJob(daily_summary_task_id)}

(***************************************************************************)
(* Deduplication, the test endpoint and quiet hours                        *)
(***************************************************************************)
\* str::trim of a body, computed apart from the cache code
Trimmed(m) ==
    LET lead == {i \in 1..Len(m) : \A j \in 1..i : m[j] = " "}
        trail == {i \in 1..Len(m) : \A j \in i..Len(m) : m[j] = " "}
    IN  SubSeq(m, Cardinality(lead) + 1, Len(m) - Cardinality(trail))

\* this step is send_notification dispatching on the channel with key k
QueueDispatch(k) ==
    /\ wk = "dispatch"
    /\ idx' # idx
    /\ notifier_cache_key(Notifiers[idx]) = k

\* this step is a test notification on the channel with key k
PingDispatch(k) ==
    /\ pings' # pings
    /\ notifier_cache_key(Notifiers[pinged']) = k

\* the body this step dispatches
DispatchedBody == IF pings' # pings THEN test_message ELSE cur.body

\* the dedup rule for a dispatch on channel k
DedupRule(k) ==
    LET b == Trimmed(DispatchedBody) IN
    /\ lastEv'[k].out = "skipped" <=> LAST_MESSAGES[k] = b
    /\ lastEv'[k].out = "skipped" => LAST_MESSAGES'[k] = LAST_MESSAGES[k]
    /\ lastEv'[k].out = "sent" => LAST_MESSAGES'[k] = b
    /\ \A other \in Keys \ {k} :
          /\ LAST_MESSAGES'[other] = LAST_MESSAGES[other]
          /\ lastEv'[other] = lastEv[other]

\* this dispatch on k follows a dispatch of the same trimmed body on k
RepeatsLast(k) ==
    /\ lastEv[k] # NoEvent
    /\ Trimmed(lastEv[k].message) = Trimmed(DispatchedBody)

\* C7 (as the code has it): a dispatch on channel c without bypass_cache is
\* skipped iff its trimmed body equals the value stored under c's key,
\* otherwise the trimmed body is stored and the send is attempted; the second
\* of two successive dispatches of the same trimmed body on c is skipped, so
\* the two cause at most one outbound send on c.
C7_DedupPerChannel ==
    [][\A k \in Keys :
          QueueDispatch(k) \/ PingDispatch(k) =>
             /\ DedupRule(k)
             /\ RepeatsLast(k) => lastEv'[k].out = "skipped"]_vars

\* a body that differs from the stored one only by surrounding blanks was
\* skipped on the Telegram channel
C7_Witness ==
      (/\ lastEv[notifier_cache_key(Telegram)] =
             [message |-> <<" ", "a", " ">>, out |-> "skipped"]
       /\ LAST_MESSAGES[notifier_cache_key(Telegram)] = <<"a">>)

\* C7 (as stated): the dedup rule, and two successive dispatches of the same
\* trimmed body on c cause exactly one outbound send on c.
C7_ExactlyOneSend ==
    [][\A k \in Keys :
          QueueDispatch(k) \/ PingDispatch(k) =>
             /\ DedupRule(k)
             /\ RepeatsLast(k) =>
                   (lastEv[k].out = "sent") # (lastEv'[k].out = "sent")]_vars

\* C8: a test notification is sent on every request and leaves
\* LAST_MESSAGES as it was.
C8_PingBypassesCache ==
    [][\A k \in Keys :
          PingDispatch(k) =>
             /\ lastEv'[k].out = "sent"
             /\ LAST_MESSAGES' = LAST_MESSAGES]_vars

\* the next end:00 after t
NextEnd(t, end_hour) ==
    LET today == DayStart(t) + HalfPerHour * end_hour
    IN  IF today > t THEN today ELSE today + HalfPerHour * HoursPerDay

\* the reference predicate: hour in [start, end), wrapping when start > end
InWindow(hour, start, end) ==
    \/ start > end /\ (hour >= start \/ hour < end)
    \/ start <= end /\ start <= hour /\ hour < end

\* C9: a message popped while quiet hours are enabled and the local hour is
\* in the quiet window is not dispatched at that pop; its re-enqueue is
\* scheduled for the next end:00 and the worker goes on.
C9_QuietPopDelays ==
    [][(/\ wk = "recv"
        /\ wk' # "recv"
        /\ ncfg.enable_notification_quiet_hours
        /\ InWindow(HourOf(now), ncfg.quiet_hours_start, ncfg.quiet_hours_end))
       => /\ wk' = "sleep"
          /\ delayed' = delayed \cup
                {[msg |-> Head(queue),
                  due |-> NextEnd(now, ncfg.quiet_hours_end)]}
          /\ delayed' # delayed]_vars

\* C10: for every start, end and hour in 0..23 the worker's quiet predicate
\* equals the reference; with 22/9 the hour 23 is quiet and the hour 9 is
\* not; with start = end no hour is quiet.
C10_QuietPredicate ==
    quiet # <<>> =>
      LET hour == HourOf(now)
          start == ncfg.quiet_hours_start
          end == ncfg.quiet_hours_end
      IN  /\ quiet[1] = InWindow(hour, start, end)
          /\ start = 22 /\ end = 9 /\ hour = 23 => quiet[1]
          /\ start = 22 /\ end = 9 /\ hour = 9 => ~quiet[1]
          /\ start = end => ~quiet[1]

\* the predicate was evaluated for 22/9 at 23:00 and found the hour quiet
C10_Witness ==
      (/\ quiet = <<TRUE>>
       /\ ncfg.quiet_hours_start = 22
       /\ ncfg.quiet_hours_end = 9
       /\ HourOf(now) = 23)

(***************************************************************************)
(* Delayed messages, the dedup cache and the order of the queue            *)
(***************************************************************************)
\* this step is a spawned task sending its message back to the main queue
RequeueStep == delayed' # delayed /\ delayed' \subseteq delayed

\* C11: a message popped during quiet hours is re-enqueued on the main queue
\* when the quiet window has ended, not before, so that the pop which
\* dispatches it happens at an hour outside the window.
C11_RequeueAfterWindow ==
    [][RequeueStep =>
          /\ Len(queue') = Len(queue) + 1
          /\ \A d \in delayed \ delayed' : queue'[Len(queue')] = d.msg
          /\ ~InWindow(HourOf(now), ncfg.quiet_hours_start,
                       ncfg.quiet_hours_end)]_vars

\* this step is a pop that hands the message to a delayed re-enqueue
DelayStep == delayed' # delayed /\ delayed \subseteq delayed'

\* C12: the dedup cache is read and written only when a message is
\* dispatched: enqueueing, a pop that delays the message and the re-enqueue
\* leave LAST_MESSAGES as it was, and a dispatch from the queue is decided by
\* the cache contents at that dispatch.
C12_CacheOnlyAtDispatch ==
    [][/\ (enq' # enq \/ DelayStep \/ RequeueStep) =>
             LAST_MESSAGES' = LAST_MESSAGES /\ lastEv' = lastEv
       /\ \A k \in Keys :
             QueueDispatch(k) =>
                (lastEv'[k].out = "skipped" <=>
                    LAST_MESSAGES[k] = Trimmed(cur.body))]_vars

\* a message waits in a delayed re-enqueue while the cache of the Telegram
\* channel holds what a later dispatch stored
C12_Witness ==
    /\ \E d \in delayed : d.msg.body = <<"a">>
    /\ LAST_MESSAGES[notifier_cache_key(Telegram)] = test_message
    /\ LAST_MESSAGES[notifier_cache_key(Webhook)] = Absent

(***************************************************************************)
(* The pause of the worker between two messages                            *)
(***************************************************************************)
\* largest notification_interval the worker is run with
MaxInterval == 121

\* the worker under every notification_interval, started at 22:00, outside
\* the quiet window, or at 23:00, inside it
IntervalInit ==
    /\ SchedInit
    /\ video_task_id # None
    /\ NotifierStarts({StartTime, StartTime + HalfPerHour},
                      [enable_notification_quiet_hours : {TRUE},
                       quiet_hours_start : {23}, quiet_hours_end : {1},
                       notification_interval : 0..MaxInterval])
    /\ EndpointsUp
    /\ ScanIdle
    /\ StoreIdle

IntervalNext ==
    \/ \E b \in Bodies : enqueue(b)
    \/ Pop
    \/ Dispatch
    \/ Sleep

IntervalSpec == IntervalInit /\ [][IntervalNext]_vars

\* clamp(n, 1, 60)
Clamped(n) == IF n < 1 THEN 1 ELSE IF n > 60 THEN 60 ELSE n

\* this step ends the handling of a popped message: it was delayed, or
\* send_notification returned
HandledStep == DelayStep \/ (wk = "dispatch" /\ wk' # "dispatch")

\* C13: after each popped message, dispatched or delayed, the worker sleeps
\* clamp(notification_interval, 1, 60) seconds before it receives again:
\* 0 gives 1, 120 gives 60, a value in 1..60 is used as is.
C13_ClampedPause ==
    [][/\ HandledStep =>
             /\ wk' = "sleep"
             /\ interval' = Clamped(ncfg.notification_interval)
             /\ ncfg.notification_interval = 0 => interval' = 1
             /\ ncfg.notification_interval = 120 => interval' = 60
             /\ ncfg.notification_interval \in 1..60 =>
                   interval' = ncfg.notification_interval
       /\ (wk # "recv" /\ wk' = "recv") => wk = "sleep"]_vars

\* the worker sleeps one second after it delayed a message under
\* notification_interval = 0
C13_Witness ==
    /\ wk = "sleep"
    /\ delayed # {}
    /\ ncfg.notification_interval = 0
    /\ interval = 1

\* the messages that were enqueued and have not reached send_notification
Pending ==
    {queue[i] : i \in 1..Len(queue)} \cup {d.msg : d \in delayed}

\* this step hands a popped message to send_notification
DispatchStart == wk = "recv" /\ wk' = "dispatch"

\* when a message starts to be dispatched, nothing enqueued before it is
\* still waiting (ids count the calls of enqueue)
InEnqueueOrder ==
    DispatchStart =>
       \A m \in (Pending \ {cur'}) : m.id > cur'.id

\* C14 (as stated): the queue is FIFO under every quiet-hours configuration
\* and every timing: m1 enqueued before m2 is dispatched before m2.
C14_Fifo == [][InEnqueueOrder]_vars

\* C14 (as the code has it): with quiet hours disabled the queue is FIFO for
\* every timing of the enqueues.
C14_FifoWithoutQuietHours ==
    [][~ncfg.enable_notification_quiet_hours => InEnqueueOrder]_vars

\* quiet hours are disabled, the first message is being dispatched and the
\* second one waits in the queue
C14_Witness ==
    /\ ~ncfg.enable_notification_quiet_hours
    /\ wk = "dispatch"
    /\ cur.id = 1
    /\ Len(queue) = 1
    /\ queue[1].id = 2

(***************************************************************************)
(* Shutdown and the notification queue                                     *)
(***************************************************************************)
\* the senders of the channel that are alive: the one in the static
\* NOTIFICATION_QUEUE, which is never dropped, the clone the worker keeps
\* for delayed messages, and the clone each delayed task holds
SendersOpen ==
    {"NOTIFICATION_QUEUE.sender", "sender_for_delay"} \cup
    {d.msg.id : d \in delayed}

\* receiver.recv() returns None: every sender is dropped and nothing is left
RecvNone == SendersOpen = {} /\ queue = <<>>

\* the worker waits in receiver.recv() for a message
RecvPending == wk = "recv" /\ queue = <<>> /\ ~RecvNone

\* the config watcher, start() and the notification queue side by side
DrainNext ==
    \/ UpdateConfig
    \/ WatcherChanged
    \/ WatcherRemove
    \/ WatcherAdd
    \/ WatcherSummary
    \/ Shutdown
    \/ \E b \in Bodies : enqueue(b)
    \/ Pop
    \/ Dispatch
    \/ Sleep

DrainSpec == Init /\ [][DrainNext]_vars

\* C15: on shutdown the sender side of the notification queue is closed, the
\* worker handles what is left in the queue and its receive loop ends: after
\* the shutdown no sender is open and the worker never waits for a message.
C15_DrainedOnShutdown ==
    ~schedUp => SendersOpen = {} /\ ~RecvPending

\* the scan-statistics notifications in NOTIFICATION_QUEUE
StatsEnqueued ==
    {j \in 1..Len(queue) : queue[j].body.tag = "stats"}

\* the positions (from 1) at which process_video_source returned a
\* risk-control error
RiskPositions ==
    {i \in 1..Len(outcomes) : outcomes[i] = "risk_control"}

\* C16 as stated: after a risk-control error at position i no later source
\* is processed, and when download_video has returned it returned Ok and the
\* scan statistics were enqueued exactly once.
C16_RiskControlAborts ==
    \A i \in RiskPositions :
        /\ Len(outcomes) = i
        /\ scanPc = "done" =>
              ret = "Ok" /\ Cardinality(StatsEnqueued) = 1

\* C16, amended: after a risk-control error at position i no later source is
\* processed, download_video returns Ok, and the scan statistics are
\* enqueued exactly once when the snapshot has a notifier and not at all
\* when it has none.
C16_RiskControlAbortsNotified ==
    \A i \in RiskPositions :
        /\ Len(outcomes) = i
        /\ Cardinality(StatsEnqueued) <= 1
        /\ scanPc = "done" =>
              /\ ret = "Ok"
              /\ Cardinality(StatsEnqueued) = (IF scfg.notifiers THEN 1 ELSE 0)

C16_Witness ==
    /\ scanPc = "done"
    /\ scfg.notifiers
    /\ \E i \in RiskPositions : i < Len(video_sources)
    /\ ret = "Ok"
    /\ Cardinality(StatsEnqueued) = 1

\* the sum of f over the kinds in S
RECURSIVE SumOver(_, _)
SumOver(f, S) ==
    IF S = {} THEN 0
    ELSE LET k == CHOOSE x \in S : TRUE
         IN  f[k] + SumOver(f, S \ {k})

\* the sources of kind k at the 0-based positions i..n-1
KindFrom(k, i) ==
    {j \in i..(Len(video_sources) - 1) : video_sources[j + 1] = k}

\* C17: in a cycle aborted by risk control at 0-based position i of n
\* sources the pending count of each kind is the number of sources of that
\* kind at positions i..n-1, the pending counts sum to n - i, and
\* succeeded + pending <= total for every kind (risk control on the 2nd of 3
\* sources: 2 pending); without risk control every pending count is 0.  The
\* enqueued statistics carry these counts.
C17_PendingCounts ==
    /\ \A p \in RiskPositions :
          LET i == p - 1
              n == Len(video_sources)
          IN  /\ \A k \in SourceKinds :
                    /\ risk_control[k] = Cardinality(KindFrom(k, i))
                    /\ succeeded[k] + risk_control[k] <= Total(k)
              /\ SumOver(risk_control, SourceKinds) = n - i
              /\ (n = 3 /\ p = 2) => SumOver(risk_control, SourceKinds) = 2
    /\ RiskPositions = {} => \A k \in SourceKinds : risk_control[k] = 0
    /\ \A j \in StatsEnqueued :
          \A part \in queue[j].body.parts :
              /\ part.pending = risk_control[part.kind]
              /\ part.succeeded = succeeded[part.kind]
              /\ part.total = Total(part.kind)

C17_Witness ==
    /\ scanPc = "done"
    /\ Len(video_sources) = 3
    /\ RiskPositions = {2}
    /\ \E j \in StatsEnqueued :
          \E part \in queue[j].body.parts :
              part.pending = 2 /\ part.succeeded = 1 /\ part.total = 3

\* the positions (from 1) at which process_video_source failed with an
\* error that is not risk control
ErrorPositions ==
    {p \in 1..Len(outcomes) : outcomes[p] = "error"}

\* the error notifications in NOTIFICATION_QUEUE for the source at position p
ErrorsEnqueued(p) ==
    {j \in 1..Len(queue) :
        queue[j].body = [tag |-> "source_error", index |-> p - 1]}

\* the sources of kind k that were processed and returned Ok
Succeeded(k) ==
    {p \in 1..Len(outcomes) : video_sources[p] = k /\ outcomes[p] = "ok"}

\* once the loop is over every source was processed, unless risk control
\* ended it
OnlyRiskControlAborts ==
    scanPc \in {"stats", "done"} /\ outcomes # <<>> =>
        Len(outcomes) = Len(video_sources) \/ RiskPositions # {}

\* C18 as stated: a source failing with another error gets an error
\* notification enqueued, is not counted as succeeded, and the loop goes on
\* to the later sources.
C18_OtherErrorsSkip ==
    /\ \A p \in ErrorPositions : Cardinality(ErrorsEnqueued(p)) = 1
    /\ \A k \in SourceKinds : succeeded[k] = Cardinality(Succeeded(k))
    /\ OnlyRiskControlAborts

\* C18, amended: the error notification is enqueued when the snapshot has a
\* notifier and not otherwise; the rest as stated.
C18_OtherErrorsSkipNotified ==
    /\ \A p \in ErrorPositions :
          Cardinality(ErrorsEnqueued(p)) = (IF scfg.notifiers THEN 1 ELSE 0)
    /\ \A k \in SourceKinds : succeeded[k] = Cardinality(Succeeded(k))
    /\ OnlyRiskControlAborts

C18_Witness ==
    /\ scanPc = "done"
    /\ scfg.notifiers
    /\ \E p \in ErrorPositions :
          /\ Cardinality(ErrorsEnqueued(p)) = 1
          /\ succeeded[video_sources[p]] = 0
          /\ p < Len(outcomes)
          /\ outcomes[Len(outcomes)] = "ok"
          /\ Len(outcomes) = Len(video_sources)

(***************************************************************************)
(* Configuration updates and cycles with requests that check() refuses     *)
(***************************************************************************)
ConfigInit ==
    /\ SchedInit
    /\ NotifierStarts({StartTime}, {DefaultNotifyConfig})
    /\ EndpointsUp
    /\ ScanStarts(ScanConfigs, SeqsUpTo(SourceKinds, 1))
    /\ StoreIdle

ConfigNext ==
    \/ \E c \in Requested : update_config(c)
    \/ WatcherChanged
    \/ WatcherRemove
    \/ WatcherAdd
    \/ WatcherSummary
    \/ ScanCheck
    \/ LoadSources
    \/ \E o \in SourceOutcomes : ProcessSource(o)
    \/ SendStats

ConfigSpec == ConfigInit /\ [][ConfigNext]_vars

\* a step in which update_config answers with the error of check()
Rejected == response # "Err" /\ response' = "Err"

\* C19: an update that fails check() leaves the stored snapshot and its
\* version as they were, wakes no subscriber and rebuilds no job, so the
\* stored snapshot always passes check(); a download cycle whose snapshot
\* fails check() returns an error without processing a source or enqueueing
\* anything.
C19_RejectedWithoutEffect ==
    [][/\ Rejected =>
             UNCHANGED <<config, version, watchVars, regVars, status>>
       /\ Checked(config')
       /\ rxSeen' # version' => rxSeen # version \/ response' = "Ok"
       /\ ~check(scfg) =>
             /\ outcomes' = <<>>
             /\ scanPc' \in {"check", "done"}
             /\ scanPc' = "done" => ret' = "Err"
             /\ UNCHANGED <<queue, succeeded, risk_control>>]_vars

C19_Witness ==
    /\ response = "Err"
    /\ version = 0
    /\ config = DefaultConfig
    /\ wPc = "wait"
    /\ ~check(scfg)
    /\ video_sources # <<>>
    /\ scanPc = "done"
    /\ ret = "Err"

(***************************************************************************)
(* Config::check on interval triggers                                      *)
(***************************************************************************)
\* the longest Trigger::Interval looked at, in seconds
MaxSeconds == 121

\* download_video is entered with a snapshot whose trigger is any interval
\* of 0..MaxSeconds seconds, all other fields being valid
CheckInit ==
    /\ SchedInit
    /\ video_task_id # None
    /\ NotifierStarts({StartTime}, {DefaultNotifyConfig})
    /\ EndpointsUp
    /\ ScanStarts([interval : 0..MaxSeconds, notifiers : BOOLEAN],
                  {<<"favorite">>})
    /\ StoreIdle

CheckNext == ScanCheck

CheckSpec == CheckInit /\ [][CheckNext]_vars

\* config.check() has been evaluated and returned an error
CheckFailed == scanPc = "done" /\ ret = "Err"

\* config.check() has been evaluated and returned Ok
CheckPassed == scanPc = "sources" /\ ret = "none"

\* C20: Config::check rejects Trigger::Interval(s) exactly when s <= 60;
\* 60 is rejected and 61 is accepted.
C20_IntervalAbove60 ==
    scanPc # "check" =>
        /\ CheckFailed <=> scfg.interval <= 60
        /\ CheckPassed <=> scfg.interval >= 61
        /\ scfg.interval = 60 => CheckFailed
        /\ scfg.interval = 61 => CheckPassed

C20_Witness ==
    /\ scfg.interval = 60
    /\ CheckFailed

(***************************************************************************)
(* The operator endpoints and the cycle on one video with two pages        *)
(***************************************************************************)
\* a video whose four own subtasks are done and whose pages are not
OwnDone == set(AllOk, PagesSlot, MaxFailures - 1)

\* a page whose video file failed five times
FileFailed == set(AllOk, VideoFileSlot, MaxFailures - 1)

\* the tables hold video 1 with pages 1 and 2: untouched, with the video
\* file of page 1 failed five times, or all done
StoreInit ==
    /\ SchedInit
    /\ video_task_id # None
    /\ NotifierStarts({StartTime}, {DefaultNotifyConfig})
    /\ EndpointsUp
    /\ ScanIdle
    /\ \E state \in {<<0, 0, 0>>, <<OwnDone, FileFailed, AllOk>>,
                     <<AllOk, AllOk, AllOk>>} :
          StoreStarts(
            {[v \in VideoIds |->
                IF v = 1 THEN [NewVideo(state[1], "false") EXCEPT
                                 !.path = IF state[1] = 0 THEN "" ELSE "dir"]
                ELSE NoVideo]},
            {[p \in PageIds |->
                [NewPage(1, state[p + 1]) EXCEPT
                   !.path = IF state[p + 1] = 0 THEN "" ELSE "file"]]})

\* the updates a request is looked at with: any valid slot, set to 0 or to
\* STATUS_OK
StatusUpdates ==
    {[status_index |-> i, status_value |-> v] :
        i \in status_index, v \in {0, STATUS_OK} \cap status_value}

\* no update or one update
UpTo1(updates) == {<<>>} \cup {<<u>> : u \in updates}

\* page_updates naming page 1 with one update of the video-file slot
PageUpdates ==
    {<<>>} \cup
    {<<[page_id |-> 1, updates |-> <<u>>]>> :
        u \in {x \in StatusUpdates : x.status_index = VideoFileSlot}}

\* the subtasks of the pages of a run all succeed, all fail, or all meet an
\* error that is ignored
PageRuns ==
    {[p \in PageIds |-> [i \in Slots |-> r]] :
        r \in {SucceededRun, Failed, Ignored}}

StoreNext ==
    \/ \E id \in VideoIds, force \in BOOLEAN : reset_video_status(id, force)
    \/ \E id \in VideoIds, committed, removed \in BOOLEAN :
          clear_and_reset_video_status(id, committed, removed)
    \/ \E id \in VideoIds, vu \in UpTo1(StatusUpdates), pu \in PageUpdates :
          update_video_status(id, vu, pu, "None", "None")
    \/ \E vu \in UpTo1({u \in StatusUpdates : u.status_index = PagesSlot}) :
          update_filtered_video_status({1}, vu, <<>>, "None", "None")
    \/ \E id \in VideoIds, k \in Slots : RetryVideoBegin(id, k)
    \/ \E r \in Results, runs \in PageRuns : RetryVideoFinish(r, runs)
    \/ \E id \in PageIds, k \in Slots : RetryPageBegin(id, k)
    \/ \E r \in Results : RetryPageFinish(r)
    \/ \E vr \in Uniform, runs \in PageRuns : download_video_pages(1, vr, runs)

StoreSpec == StoreInit /\ [][StoreNext]_vars

(***************************************************************************)
(* Resets, retries and cycles on one video with two pages                  *)
(***************************************************************************)
RetryNext ==
    \/ \E id \in VideoIds, force \in BOOLEAN : reset_video_status(id, force)
    \/ \E id \in VideoIds, k \in Slots : RetryVideoBegin(id, k)
    \/ \E r \in Results, runs \in PageRuns : RetryVideoFinish(r, runs)
    \/ \E id \in PageIds, k \in Slots : RetryPageBegin(id, k)
    \/ \E r \in Results : RetryPageFinish(r)
    \/ \E vr \in Uniform, runs \in PageRuns : download_video_pages(1, vr, runs)

RetrySpec == StoreInit /\ [][RetryNext]_vars

\* a word of five 3-bit slots and nothing above them
ValidWord(w) ==
    /\ w \in 0..(Radix ^ 5 - 1)
    /\ \A i \in Slots : get(w, i) \in 0..STATUS_OK
    /\ Pack(Unpack(w)) = w

\* C21: the download_status of every Video and every Page is a valid codec
\* word, whatever cycles, resets, forced resets, status updates, retries and
\* clear-and-resets happened.
C21_ValidWords ==
    /\ \A v \in VideoIds : ValidWord(videos[v].download_status)
    /\ \A p \in PageIds : ValidWord(pages[p].download_status)

\* a retry failed on a saturated slot after an update set another slot
C21_Witness ==
    /\ ops = MaxOps
    /\ reply.op = "retry-page"
    /\ \E p \in PageIds :
          /\ pages[p].exists
          /\ get(pages[p].download_status, VideoFileSlot) = 1
    /\ get(videos[1].download_status, PagesSlot) = 1

\* C22: a Video whose word is all-7 has slot 1 at 7 in every one of its
\* Pages, in every reachable state, the operator endpoints included.
C22_AllOkMeansPagesOk ==
    \A v \in VideoIds :
        (videos[v].exists /\ videos[v].download_status = AllOk)
            => \A p \in PagesOf(v) :
                  get(pages[p].download_status, VideoFileSlot) = STATUS_OK

\* a retry_page_task step that saved the page
PageRetried == req.kind = "page" /\ req'.kind = "none" /\ reply'.status = "Ok"

\* a retry_video_task step that saved the video
VideoRetried ==
    req.kind = "video" /\ req'.kind = "none" /\ reply'.status = "Ok"

\* the stored Page rows of the video with the given id, after the step
PagesOfAfter(id) ==
    {p \in PageIds : pages'[p].exists /\ pages'[p].video_id = id}

\* the value is the least slot-1 value of the stored pages of the video
LeastFileSlotAfter(id, value) ==
    /\ \A p \in PagesOfAfter(id) :
          value <= get(pages'[p].download_status, VideoFileSlot)
    /\ \E p \in PagesOfAfter(id) :
          value = get(pages'[p].download_status, VideoFileSlot)

\* C23: retry_page_task with task_index 1 leaves the Video's slot 4 at the
\* minimum of slot 1 over all the Pages of the video as they are persisted
\* then, and the Video's slots 0..3 as they were; with any other task_index
\* it does not write the Video's word.
C23_RetryPageAggregates ==
    [][PageRetried =>
         LET id == req.page_model.video_id
         IN  IF req.task_index = VideoFileSlot
               THEN /\ LeastFileSlotAfter(
                         id, get(videos'[id].download_status, PagesSlot))
                    /\ \A i \in Slots \ {PagesSlot} :
                          get(videos'[id].download_status, i)
                            = get(videos[id].download_status, i)
               ELSE videos' = videos]_vars

\* the video file of page 1 failed a sixth time: its counter and the
\* video's slot 4 are at 6 while page 2 is done
C23_Witness ==
    /\ ops = 1
    /\ reply = Done("retry-page")
    /\ get(pages[1].download_status, VideoFileSlot) = MaxFailures
    /\ get(pages[2].download_status, VideoFileSlot) = STATUS_OK
    /\ videos[1].download_status = set(OwnDone, PagesSlot, MaxFailures)

\* C24: a retry with task_index k changes only slot k of the status word of
\* its target, the Video for retry_video_task and the Page for
\* retry_page_task, whatever ExecutionStatus the subtask returned.
C24_RetryFrame ==
    [][/\ VideoRetried =>
            \A i \in Slots \ {req.task_index} :
                get(videos'[req.id].download_status, i)
                  = get(videos[req.id].download_status, i)
       /\ PageRetried =>
            \A i \in Slots \ {req.task_index} :
                get(pages'[req.id].download_status, i)
                  = get(pages[req.id].download_status, i)]_vars

\* a retry of subtask 2 succeeded on the video whose page failed
C24_Witness ==
    /\ ops = MaxOps
    /\ reply = Done("retry-video")
    /\ \E i \in 1..3, v \in 1..MaxFailures :
          videos[1].download_status = set(OwnDone, i, v)

\* a step that answers no request and reads for none, as a cycle is
Unanswered == UNCHANGED <<req, reply>>

\* the cycle handles a video that is to be downloaded
Downloadable(id) ==
    videos[id].exists /\ videos[id].should_download /\ ~videos[id].is_paid_video

\* the slots of the word that hold a failure counter
Counters(w) == {i \in Slots : get(w, i) \in 1..MaxFailures}

\* C25: a slot that holds a failure counter v in 1..6 is at 0 after
\* reset_failed, and one Failed run of the subtask of a slot at 0, in a
\* retry or in a cycle, leaves it at exactly 1.
C25_FailedAfterReset ==
    [][/\ \A id \in VideoIds :
            (videos[id].exists /\ reset_video_status(id, FALSE)) =>
                /\ \A i \in Counters(videos[id].download_status) :
                      get(videos'[id].download_status, i) = 0
                /\ \A p \in PagesOf(id) :
                      \A i \in Counters(pages[p].download_status) :
                          get(pages'[p].download_status, i) = 0
       /\ (RetryPageFinish(Failed) /\ reply'.status = "Ok"
              /\ get(pages[req.id].download_status, req.task_index) = 0) =>
             get(pages'[req.id].download_status, req.task_index) = 1
       /\ (req.task_index # PagesSlot /\ reply'.status = "Ok"
              /\ \E runs \in PageRuns : RetryVideoFinish(Failed, runs)
              /\ get(videos[req.id].download_status, req.task_index) = 0) =>
             get(videos'[req.id].download_status, req.task_index) = 1
       /\ \A vr \in Uniform, runs \in PageRuns :
            (Downloadable(1) /\ Unanswered
               /\ download_video_pages(1, vr, runs)) =>
                \A p \in PagesOf(1), i \in Slots :
                    (get(pages[p].download_status, i) = 0
                        /\ runs[p][i] = Failed)
                      => get(pages'[p].download_status, i) = 1]_vars

\* the video file of page 1 had failed five times; after the reset and one more
\* failure its counter, and with it the video's slot 4, is at 1
C25_Witness ==
    /\ ops = 2
    /\ reply = Done("retry-page")
    /\ pages[1].download_status = set(FileFailed, VideoFileSlot, 1)
    /\ pages[1].path = "file"
    /\ videos[1].download_status = set(OwnDone, PagesSlot, 1)
    /\ dirs = {1}

\* C26: a Failed run advances its slot from prev to min(prev + 1, 6), so a
\* slot saturates at 6 and is never made terminal by failures; a slot that
\* is not terminal is attempted again by the next cycle.
C26_FailedAdvances ==
    [][/\ (RetryPageFinish(Failed) /\ reply'.status = "Ok") =>
            LET prev == get(pages[req.id].download_status, req.task_index)
                next == get(pages'[req.id].download_status, req.task_index)
            IN  next = Min(prev + 1, MaxFailures) /\ next # STATUS_OK
       /\ \A vr \in Uniform, runs \in PageRuns :
            (Downloadable(1) /\ Unanswered
               /\ download_video_pages(1, vr, runs)) =>
                /\ \A i \in Slots \ {PagesSlot} :
                      LET prev == get(videos[1].download_status, i)
                          next == get(videos'[1].download_status, i)
                      IN  IF prev = STATUS_OK THEN next = STATUS_OK
                          ELSE IF vr[i] = Failed
                            THEN next = Min(prev + 1, MaxFailures)
                            ELSE next = STATUS_OK
                /\ \A p \in PagesOf(1), i \in Slots :
                      LET prev == get(pages[p].download_status, i)
                          next == get(pages'[p].download_status, i)
                      IN  IF prev = STATUS_OK THEN next = STATUS_OK
                          ELSE IF runs[p][i] = Failed
                            THEN next = Min(prev + 1, MaxFailures)
                            ELSE next = STATUS_OK]_vars

\* the video file of page 1 had failed five times and failed in two more
\* cycles: the counter stays at 6
C26_Witness ==
    /\ ops = 2
    /\ reply = NoReply
    /\ get(pages[1].download_status, VideoFileSlot) = MaxFailures
    /\ get(videos[1].download_status, PagesSlot) = MaxFailures
    /\ get(pages[2].download_status, VideoFileSlot) = STATUS_OK

\* every slot of the video with the given id and of its pages is terminal
AllTerminal(id) ==
    /\ videos[id].download_status = AllOk
    /\ PagesOf(id) # {}
    /\ \A p \in PagesOf(id) : pages[p].download_status = AllOk

\* C27: a subtask that returns Ignored leaves its slot at 7, which is no
\* failure counter; later cycles do not run the subtask of a slot at 7 and
\* leave the slot at 7, whatever running it would return.
C27_IgnoredIsTerminal ==
    [][/\ (RetryPageFinish(Ignored) /\ reply'.status = "Ok") =>
            get(pages'[req.id].download_status, req.task_index) = STATUS_OK
       /\ (req.task_index # PagesSlot /\ reply'.status = "Ok"
              /\ \E runs \in PageRuns : RetryVideoFinish(Ignored, runs)) =>
            get(videos'[req.id].download_status, req.task_index) = STATUS_OK
       /\ \A vr \in Uniform, runs \in PageRuns :
            (Downloadable(1) /\ Unanswered
               /\ download_video_pages(1, vr, runs)) =>
                /\ \A i \in Slots \ {PagesSlot} :
                      (get(videos[1].download_status, i) = STATUS_OK
                          \/ vr[i] = Ignored)
                        => get(videos'[1].download_status, i) = STATUS_OK
                /\ \A p \in PagesOf(1), i \in Slots :
                      (get(pages[p].download_status, i) = STATUS_OK
                          \/ runs[p][i] = Ignored)
                        => get(pages'[p].download_status, i) = STATUS_OK
                /\ AllTerminal(1) => UNCHANGED <<videos, pages, dirs>>]_vars

\* the cover of the untouched video was retried and ignored, and in the
\* cycle after it every other subtask failed once
C27_Witness ==
    /\ ops = 2
    /\ reply = Done("retry-video")
    /\ get(videos[1].download_status, 0) = STATUS_OK
    /\ \A i \in 1..PagesSlot : get(videos[1].download_status, i) = 1
    /\ \A p \in PageIds : \A i \in Slots : get(pages[p].download_status, i) = 1

(***************************************************************************)
(* Cycles alone: no operator request between them                          *)
(***************************************************************************)
\* video 1 is new and its page list not yet fetched, or it has its two
\* pages as in StoreInit; it is to be downloaded or not, paid or not
RerunInit ==
    /\ SchedInit
    /\ video_task_id # None
    /\ NotifierStarts({StartTime}, {DefaultNotifyConfig})
    /\ EndpointsUp
    /\ ScanIdle
    /\ \E state \in {<<0, 0, 0>>, <<OwnDone, FileFailed, AllOk>>,
                     <<AllOk, AllOk, AllOk>>} :
       \E single \in IF state[1] = 0 THEN {"null", "false"} ELSE {"false"} :
       \E wanted \in BOOLEAN, paid \in BOOLEAN :
          StoreStarts(
            {[v \in VideoIds |->
                IF v = 1
                  THEN [NewVideo(state[1], single) EXCEPT
                          !.path = IF state[1] = 0 THEN "" ELSE "dir",
                          !.should_download = wanted,
                          !.is_paid_video = paid]
                  ELSE NoVideo]},
            {[p \in PageIds |->
                IF single = "null" THEN NoPage
                ELSE [NewPage(1, state[p + 1]) EXCEPT
                        !.path = IF state[p + 1] = 0 THEN "" ELSE "file"]]})

\* the results of one run, each subtask with its own
Mixed == [Slots -> {SucceededRun, Failed}] \cup Uniform

RerunNext ==
    \E vr \in Mixed, runs \in PageRuns : download_video_pages(1, vr, runs)

RerunSpec == RerunInit /\ [][RerunNext]_vars

\* a cycle that is not the first one
LaterCycle ==
    /\ ops >= 1
    /\ \E vr \in Mixed, runs \in PageRuns : download_video_pages(1, vr, runs)

\* C28 as stated: a second cycle, with no operator action in between,
\* changes no status word and no path and writes no artifact.
C28_SecondCycleIdempotent ==
    [][LaterCycle => UNCHANGED <<videos, pages, dirs>>]_vars

\* C28: a second cycle, with no operator action in between, changes no
\* status word and no path and writes no artifact when the cycle before it
\* left every slot of the video and of its pages terminal, or when the video
\* is skipped as not to be downloaded or paid.
C28_SecondCycleIdempotentWhenDone ==
    [][(LaterCycle /\ (AllTerminal(1) \/ ~Downloadable(1)))
          => UNCHANGED <<videos, pages, dirs>>]_vars

\* the new video was fetched completely by the first cycle and left alone
\* by the second
C28_Witness ==
    /\ ops = 2
    /\ AllTerminal(1)
    /\ Downloadable(1)
    /\ videos[1].single_page = "true"
    /\ videos[1].path = "dir"
    /\ dirs = {1}
    /\ Cardinality(PagesOf(1)) = 1

\* C29: clear_and_reset_video_status on an existing video leaves the Video
\* row with download_status 0 and single_page null and no Page row of the
\* video, both or neither; a directory that could not be removed is
\* answered with a warning and the rows stay cleared. On an unknown id the
\* answer is NotFound and nothing changes.
C29_ClearAndReset ==
    [][\A id \in VideoIds, committed, removed \in BOOLEAN :
          clear_and_reset_video_status(id, committed, removed) =>
            IF ~videos[id].exists
              THEN /\ reply'.status = "NotFound"
                   /\ UNCHANGED <<videos, pages, dirs>>
              ELSE \/ /\ reply'.status = "Ok"
                      /\ videos'[id].download_status = 0
                      /\ videos'[id].single_page = "null"
                      /\ videos'[id].exists
                      /\ PagesOfAfter(id) = {}
                      /\ id \in dirs' => reply'.warning
                   \/ /\ reply'.status = "Err"
                      /\ UNCHANGED <<videos, pages, dirs>>]_vars

\* the rows of video 1 were cleared although its directory is still there
C29_Witness ==
    /\ reply = [op |-> "clear-and-reset-status", status |-> "Ok",
                warning |-> TRUE]
    /\ videos[1].download_status = 0
    /\ videos[1].single_page = "null"
    /\ PagesOf(1) = {}
    /\ 1 \in dirs

(***************************************************************************)
(* The should_download and is_paid_video flags under the update requests   *)
(***************************************************************************)
\* each of the videos 1 and 2 is wanted, blacklisted, paid and not wanted, or
\* not there
FlagInit ==
    /\ SchedInit
    /\ video_task_id # None
    /\ NotifierStarts({StartTime}, {DefaultNotifyConfig})
    /\ EndpointsUp
    /\ ScanIdle
    /\ StoreStarts(
         [VideoIds ->
            {[NewVideo(0, "true") EXCEPT !.should_download = flags[1],
                                         !.is_paid_video = flags[2]] :
                flags \in {<<TRUE, FALSE>>, <<FALSE, FALSE>>,
                           <<FALSE, TRUE>>}} \cup {NoVideo}],
         {[p \in PageIds |-> NoPage]})

FlagNext ==
    \/ \E id \in VideoIds, asked \in OptionBool, paid \in OptionBool :
          update_video_status(id, <<>>, <<>>, asked, paid)
    \/ \E selected \in SUBSET VideoIds :
       \E asked \in OptionBool, paid \in OptionBool :
          update_filtered_video_status(selected, <<>>, <<>>, asked, paid)

FlagSpec == FlagInit /\ [][FlagNext]_vars

\* C30: every Video with is_paid_video = true has should_download = false,
\* after any sequence of update_video_status and
\* update_filtered_video_status requests.
C30_PaidNotDownloaded ==
    \A v \in VideoIds :
        (videos[v].exists /\ videos[v].is_paid_video)
            => ~videos[v].should_download

\* C31: the path of a Page becomes non-null only in a step that downloads
\* the page's video file, which leaves slot 1 of the page terminal: no
\* operation sets the path of a page whose slot 1 is not terminal after it.
C31_PathOnlyOnDownload ==
    [][\A p \in PageIds :
          (pages[p].exists /\ pages'[p].exists
              /\ pages[p].path = "" /\ pages'[p].path # "")
            => /\ get(pages[p].download_status, VideoFileSlot) # STATUS_OK
               /\ get(pages'[p].download_status, VideoFileSlot) = STATUS_OK]_vars

(***************************************************************************)
(* The credential job beside the download cycles                           *)
(***************************************************************************)
\* the cycles, the watcher and the credential job, every spawned future
\* being polled again once it can make progress
CredSpec == Init /\ [][LockNext]_vars /\ Fairness

\* C32: the credential-refresh job and a download cycle never run at the
\* same time; the refresh job that found the mutex held waits until the
\* cycle in flight ends and then runs; and a download tick that fires while
\* the refresh job holds the mutex is skipped.
C32_RefreshExcludesCycle ==
    /\ [](credPc = "running"
            => running = Cred /\ \A p \in Procs : ~Executing(p))
    /\ [](credPc = "waiting" => \E p \in Procs : Executing(p) /\ running = p)
    /\ (credPc = "waiting") ~> (credPc = "running")
    /\ [][\A p \in Procs :
            (running = Cred /\ pc[p] \in {"idle", "skipped"}
                /\ pc'[p] # pc[p])
              => pc'[p] = "skipped" /\ running' = Cred]_vars

\* a tick was skipped while the refresh job, which had waited for a cycle,
\* holds the mutex
C32_Witness ==
    /\ credPc = "running"
    /\ running = Cred
    /\ \E p \in Procs : pc[p] = "skipped"
    /\ status.last_finish # None
    /\ ~status.is_running

(***************************************************************************)
(* The published status beside the refresh_next_run jobs                   *)
(***************************************************************************)
\* the start time of the most recent cycle: the clock advances when a cycle
\* takes the lock and when it publishes its end
LastStart ==
    IF clock = 0 THEN None
    ELSE IF \E p \in Procs : Executing(p) THEN clock ELSE clock - 1

\* no cycle is executing and no refresh_next_run job is pending or in flight
AllFinished ==
    /\ \A p \in Procs : ~Executing(p)
    /\ \A i \in Uuids : rfPc[i] = "none"

\* C33: the published TaskStatus agrees with the single-flight lock under
\* every interleaving of cycles and refresh_next_run jobs: while a cycle
\* holds the lock is_running is true, and once all jobs have finished
\* is_running is false and last_run is the start time of the most recent
\* cycle.
C33_StatusAgreesWithLock ==
    /\ \A p \in Procs : Executing(p) => status.is_running
    /\ AllFinished => ~status.is_running /\ status.last_run = LastStart

(***************************************************************************)
(* Failing endpoints: the cache after a failed request, and what           *)
(* send_notification reports                                               *)
(***************************************************************************)
\* the worker and its producers, with any set of endpoints rejecting every
\* request they get
SendInit ==
    /\ SchedInit
    /\ video_task_id # None
    /\ NotifierStarts({StartTime}, {DefaultNotifyConfig})
    /\ down \in SUBSET Keys
    /\ ScanIdle
    /\ StoreIdle

SendNext ==
    \/ \E b \in Bodies : enqueue(b)
    \/ Pop
    \/ Dispatch
    \/ Sleep

SendSpec == SendInit /\ [][SendNext]_vars

\* C34: the cache entry of a channel is written before the outbound request
\* and stays when the request fails: after a failed send of m on channel c
\* the cache holds trim(m) under c's key, and the next dispatch of a message
\* with the same trimmed body on c is skipped without a request.
C34_CacheKeptOnFailure ==
    /\ [](\A k \in Keys :
            lastRes[k] = "Err" =>
               /\ lastEv[k].out = "sent"
               /\ LAST_MESSAGES[k] = Trimmed(lastEv[k].message))
    /\ [][\A k \in Keys :
            (QueueDispatch(k) /\ lastRes[k] = "Err" /\ RepeatsLast(k)) =>
               /\ lastEv'[k].out = "skipped"
               /\ lastRes'[k] = "Ok"
               /\ LAST_MESSAGES' = LAST_MESSAGES]_vars

\* the Telegram endpoint rejects every request, and a dispatch on its channel
\* was skipped over what a failed send had left in the cache
C34_Witness ==
    /\ notifier_cache_key(Telegram) \in down
    /\ lastEv[notifier_cache_key(Telegram)].out = "skipped"
    /\ lastRes[notifier_cache_key(Telegram)] = "Ok"
    /\ LAST_MESSAGES[notifier_cache_key(Telegram)] = <<"a">>

\* C40: a dispatch goes through every channel of the notifiers list, a
\* failure on one channel does not stop the attempts on the others, and the
\* dispatch is reported as failed only when at least one channel failed and
\* none succeeded, a skipped channel counting as a success.
C40_EveryChannelAttempted ==
    [][(wk = "dispatch" /\ idx' # idx) =>
          /\ lastEv'[notifier_cache_key(Notifiers[idx])].message = cur.body
          /\ idx < Len(Notifiers) =>
                wk' = "dispatch" /\ idx' = idx + 1 /\ cur' = cur
          /\ idx = Len(Notifiers) =>
                /\ wk' = "sleep"
                /\ sent' = "Err" <=>
                      /\ \E k \in Keys : lastRes'[k] = "Err"
                      /\ \A k \in Keys : lastRes'[k] # "Ok"
                /\ sent' = "Ok" <=> \E k \in Keys : lastRes'[k] = "Ok"]_vars

\* the request on the Telegram channel failed, the Webhook channel was still
\* tried and sent, and the dispatch was reported as a success
C40_Witness ==
    /\ wk = "sleep"
    /\ sent = "Ok"
    /\ lastRes[notifier_cache_key(Telegram)] = "Err"
    /\ lastEv[notifier_cache_key(Webhook)].out = "sent"
    /\ lastRes[notifier_cache_key(Webhook)] = "Ok"

(***************************************************************************)
(* notify_internal step by step, for two callers at once: the mutex around *)
(* LAST_MESSAGES, the lookup, the insert and the outbound request          *)
(***************************************************************************)
\* the texts of the racing calls: the test notification, bare and after a
\* blank
RaceBodies == {test_message, <<" ">> \o test_message}

\* what the steps of a call leave alone
RaceFrame ==
    /\ UNCHANGED <<now, ncfg, queue, delayed, wk, cur, idx, lastEv, enq,
                   pings, pinged, interval, quiet>>
    /\ UNCHANGED <<down, lastRes, success_count, fail_count, sent>>
    /\ UNCHANGED schedVars
    /\ UNCHANGED scanVars
    /\ UNCHANGED storeVars

\* caller c enters notify_internal(.., bypass_cache = false) on notifier i
\* with body b
CallNotify(c, i, b) ==
    /\ call[c].pc = "idle"
    /\ call' = [call EXCEPT ![c] =
                   [pc |-> "lock", n |-> i, body |-> b, out |-> "none",
                    raced |-> \E o \in Callers \ {c} :
                                 call[o].pc \notin {"idle", "done"}]]
    /\ UNCHANGED <<LAST_MESSAGES, mtx>>
    /\ RaceFrame

\* a mutex that lets every caller in
CacheLockFree_Always(c) == TRUE

\* LAST_MESSAGES.lock() returns when no other caller holds the guard
CacheLockFree(c) == mtx = Unlocked

\* let mut cache = LAST_MESSAGES.lock().expect(..)
LockCache(c) ==
    /\ call[c].pc = "lock"
    /\ CacheLockFree(c)
    /\ mtx' = c
    /\ call' = [call EXCEPT ![c].pc = "get"]
    /\ UNCHANGED LAST_MESSAGES
    /\ RaceFrame

\* if cache.get(&key).map(..) == Some(normalized.as_str()) { return Ok(()) }:
\* the guard is dropped by the return
CacheGet(c) ==
    /\ call[c].pc = "get"
    /\ IF CacheSkips(Notifiers[call[c].n], call[c].body, FALSE)
         THEN /\ call' = [call EXCEPT ![c].pc = "done", ![c].out = "skipped"]
              /\ mtx' = Unlocked
         ELSE /\ call' = [call EXCEPT ![c].pc = "insert"]
              /\ UNCHANGED mtx
    /\ UNCHANGED LAST_MESSAGES
    /\ RaceFrame

\* cache.insert(key, normalized); the guard is dropped at the end of the
\* block
CacheInsert(c) ==
    /\ call[c].pc = "insert"
    /\ LAST_MESSAGES' =
          [LAST_MESSAGES EXCEPT ![notifier_cache_key(Notifiers[call[c].n])] =
              normalize_message_for_cache(Notifiers[call[c].n], call[c].body)]
    /\ mtx' = Unlocked
    /\ call' = [call EXCEPT ![c].pc = "request"]
    /\ RaceFrame

\* client.post(..).send().await and the check of the status
Request(c) ==
    /\ call[c].pc = "request"
    /\ call' = [call EXCEPT ![c].pc = "done", ![c].out = "sent"]
    /\ UNCHANGED <<LAST_MESSAGES, mtx>>
    /\ RaceFrame

\* no caller is inside notify_internal
NoCaller == \A c \in Callers : call[c].pc = "idle"

\* test notifications fill the cache, then the worker and a direct call go
\* through notify_internal side by side
RaceInit ==
    /\ SchedInit
    /\ video_task_id # None
    /\ NotifierStarts({StartTime}, {DefaultNotifyConfig})
    /\ EndpointsUp
    /\ ScanIdle
    /\ StoreIdle

RaceNext ==
    \/ \E i \in 1..Len(Notifiers) : NoCaller /\ ping_notifiers(i)
    \/ \E c \in Callers, i \in 1..Len(Notifiers), b \in RaceBodies :
          CallNotify(c, i, b)
    \/ \E c \in Callers : LockCache(c)
    \/ \E c \in Callers : CacheGet(c)
    \/ \E c \in Callers : CacheInsert(c)
    \/ \E c \in Callers : Request(c)

RaceSpec == RaceInit /\ [][RaceNext]_vars

\* both callers carry the same trimmed body for the same channel
SameDispatch ==
    /\ call["worker"].n = call["direct"].n
    /\ Trimmed(call["worker"].body) = Trimmed(call["direct"].body)

\* both callers have left the dedup block
BothPast == \A c \in Callers : call[c].pc \in {"request", "done"}

\* caller c goes on to the outbound request
Sends(c) == call[c].pc = "request" \/ call[c].out = "sent"

\* the two calls were inside notify_internal at the same time, and both have
\* left the dedup block
Raced ==
    /\ BothPast
    /\ SameDispatch
    /\ \E c \in Callers : call[c].raced

\* the channel key both callers dispatch on
RacedKey == notifier_cache_key(Notifiers[call["worker"].n])

\* C39 (as the code has it): of two concurrent notify calls without
\* bypass_cache that carry the same trimmed body for the same channel key, at
\* most one goes on to send; exactly one does, and the other is skipped, when
\* the cache did not hold that body before the two calls, and both are
\* skipped when it did.
C39_AtMostOneSends ==
    Raced =>
       /\ ~(Sends("worker") /\ Sends("direct"))
       /\ lastEv[RacedKey] = NoEvent => (Sends("worker") # Sends("direct"))
       /\ lastEv[RacedKey] # NoEvent =>
             ~Sends("worker") /\ ~Sends("direct")

\* the worker and the direct call raced on the Telegram channel with bodies
\* that differ by a blank: the direct call entered while the worker was
\* inside and was skipped, and the request of the worker is still out
C39_Witness ==
    /\ call["worker"].pc = "request"
    /\ call["worker"].n = 1
    /\ call["worker"].body = <<" ">> \o test_message
    /\ call["direct"].pc = "done"
    /\ call["direct"].n = 1
    /\ call["direct"].body = test_message
    /\ call["direct"].out = "skipped"
    /\ call["direct"].raced
    /\ pings = 0

\* C39 (as stated): of two concurrent notify calls with the same trimmed
\* body for the same key, exactly one sends and the other is skipped.
C39_ExactlyOneSends ==
    Raced => (Sends("worker") # Sends("direct"))

(***************************************************************************)
(* The two resets on two videos with one page each                         *)
(***************************************************************************)
\* a video and its page: untouched; the video file of the page failed five
\* times; all done; a subtask of the video failed twice; all done but for
\* the poster of the page, which failed three times
ResetPairs ==
    {<<0, 0>>, <<OwnDone, FileFailed>>, <<AllOk, AllOk>>,
     <<set(0, 0, 2), 0>>, <<AllOk, set(AllOk, 0, 3)>>}

\* video 1 with page 1, and video 2 with page 2 or not there
ResetInit ==
    /\ SchedInit
    /\ video_task_id # None
    /\ NotifierStarts({StartTime}, {DefaultNotifyConfig})
    /\ EndpointsUp
    /\ ScanIdle
    /\ \E one \in ResetPairs, two \in ResetPairs \cup {<<>>} :
          StoreStarts(
            {[v \in VideoIds |->
                IF v = 1 THEN NewVideo(one[1], "true")
                ELSE IF two = <<>> THEN NoVideo
                ELSE NewVideo(two[1], "true")]},
            {[p \in PageIds |->
                IF p = 1 THEN NewPage(1, one[2])
                ELSE IF two = <<>> THEN NoPage
                ELSE NewPage(2, two[2])]})

ResetNext ==
    \/ \E id \in VideoIds, force \in BOOLEAN : reset_video_status(id, force)
    \/ \E selected \in SUBSET VideoIds, force \in BOOLEAN :
          reset_filtered_video_status(selected, force)

ResetSpec == ResetInit /\ [][ResetNext]_vars

\* the last request was an answered reset-status of video id without force
PlainResetOf(r, id) ==
    /\ r.op = "reset-status"
    /\ r.status = "Ok"
    /\ r.ids = {id}
    /\ ~r.force

\* C36: reset_video_status with force = false is idempotent: the second of
\* two such calls in a row on a video reports resetted = false, returns no
\* reset page and writes nothing.
C36_PlainResetIdempotent ==
    [][\A id \in VideoIds :
          (ops' # ops /\ PlainResetOf(reply, id) /\ PlainResetOf(reply', id))
            => /\ ~reply'.resetted
               /\ reply'.pages = {}
               /\ reply'.videos = {}
               /\ UNCHANGED <<videos, pages>>]_vars

\* a reset took the failures of video 1 and its page away, and a reset
\* without force after it found nothing to do
C36_Witness ==
    /\ ops = 2
    /\ PlainResetOf(reply, 1)
    /\ ~reply.resetted
    /\ videos[1].download_status = set(AllOk, PagesSlot, 0)
    /\ pages[1].download_status = set(AllOk, VideoFileSlot, 0)

\* this step is a reset that was answered
ResetStep ==
    /\ ops' # ops
    /\ reply'.op \in {"reset-status", "reset-filtered-status"}
    /\ reply'.status = "Ok"

\* C38: in both resets, a video with at least one page whose word was reset
\* has its slot 4 at 0 and is counted as reset, the rows of videos and pages
\* that change are those of the one transaction of the request, and nothing
\* is written when nothing was reset.
C38_PageResetReopensVideo ==
    [][ResetStep =>
          /\ reply'.pages =
                {p \in PageIds :
                    pages'[p].download_status # pages[p].download_status}
          /\ {v \in VideoIds : videos'[v] # videos[v]} \subseteq reply'.videos
          /\ \A v \in VideoIds :
                PagesOf(v) \cap reply'.pages # {}
                  => /\ get(videos'[v].download_status, PagesSlot) = 0
                     /\ v \in reply'.videos
          /\ reply'.resetted <=> (reply'.videos # {} \/ reply'.pages # {})
          /\ ~reply'.resetted => UNCHANGED <<videos, pages>>]_vars

\* a filtered reset over both videos reset the poster of page 1, and video
\* 1, whose own word held no failure, was written with slot 4 at 0
C38_Witness ==
    /\ reply.op = "reset-filtered-status"
    /\ reply.ids = VideoIds
    /\ reply.pages = {1}
    /\ reply.videos = {1}
    /\ ops = 1
    /\ videos[1].download_status = set(AllOk, PagesSlot, 0)
    /\ pages[1].download_status = set(AllOk, 0, 0)

(***************************************************************************)
(* Bursts of configuration changes and the config watcher                  *)
(***************************************************************************)
\* VersionedConfig::update inside a burst: the snapshot is stored and the
\* subscribers are told, whatever the watcher is doing
ConfigBurst ==
    /\ version < MaxBurst
    /\ \E c \in Configs :
          /\ Checked(c)
          /\ config' = c
    /\ version' = version + 1
    /\ response' = "Ok"
    /\ UNCHANGED <<running, procVars, status, clock, regVars,
                   watchVars, rfVars, credPc, schedUp>>
    /\ UNCHANGED notifyVars
    /\ UNCHANGED scanVars
    /\ UNCHANGED storeVars

\* the updates and the watcher alone
ReloadNext ==
    \/ ConfigBurst
    \/ WatcherChanged
    \/ WatcherRemove
    \/ WatcherAdd
    \/ WatcherSummary
    \/ Shutdown

ReloadSpec == Init /\ [][ReloadNext]_vars /\ Fairness

\* the registered download job is the one built for the latest configuration
LatestJob ==
    /\ rxSeen = version
    /\ video_task_id = DownloadUuid(version)
    /\ DownloadJobs = {DownloadJob(video_task_id, config.interval)}

\* the removal of the old job or the one-shot add ended the watcher, or the
\* job for the latest configuration could not be built or added
ReloadFailed ==
    \/ wPc = "dead"
    \/ rxSeen = version /\ wPc \in {"summary", "wait"} /\ video_task_id = None

\* C37: no configuration change is missed by the watcher: after a burst of
\* changes, also when several arrive while one is being processed, the
\* registered download job is in the end the one built from the interval of
\* the latest configuration, unless a removal or a creation failed.
C37_LatestConfigWins ==
    <>[](version = 0 \/ ReloadFailed \/ LatestJob)

\* the watcher took two changes in one wake-up: the job of the latest
\* configuration is registered, and none was ever built for the first change
C37_Witness ==
    /\ wPc = "summary"
    /\ version = MaxBurst
    /\ rxSeen = version
    /\ video_task_id = DownloadUuid(version)
    /\ DownloadJobs = {DownloadJob(video_task_id, config.interval)}
    /\ rfPc[DownloadUuid(1)] = "none"
    /\ daily_summary_task_id = SummaryUuid(0)
    /\ config.interval # DefaultConfig.interval

(***************************************************************************)
(* Requests and cycles that overlap a retry in flight                      *)
(***************************************************************************)
OverlapNext ==
    \/ \E id \in VideoIds, k \in Slots : RetryVideoBegin(id, k)
    \/ \E r \in Results, runs \in PageRuns : RetryVideoFinish(r, runs)
    \/ \E id \in PageIds, k \in Slots : RetryPageBegin(id, k)
    \/ \E r \in Results : RetryPageFinish(r)
    \/ \E id \in VideoIds, k \in Slots, r \in Results :
          OverlappedRetryVideo(id, k, r)
    \/ \E id \in PageIds, k \in Slots, r \in Results :
          OverlappedRetryPage(id, k, r)
    \/ \E vr \in Uniform, runs \in PageRuns : OverlappedCycle(1, vr, runs)

OverlapSpec == StoreInit /\ [][OverlapNext]_vars

\* C35: no status update is lost under concurrent writers: when a retry
\* saves its word after another retry or a cycle wrote to the same row, every
\* slot it did not run keeps the value stored at that moment, in the Page of
\* a page retry and in the Video of either retry.
C35_NoLostUpdate ==
    [][/\ (req.kind = "video" /\ req'.kind = "none"
              /\ videos[req.id].exists) =>
            \A i \in Slots \ {req.task_index} :
                get(videos'[req.id].download_status, i)
                  = get(videos[req.id].download_status, i)
       /\ (req.kind = "page" /\ req'.kind = "none"
              /\ pages[req.id].exists) =>
            /\ \A i \in Slots \ {req.task_index} :
                  get(pages'[req.id].download_status, i)
                    = get(pages[req.id].download_status, i)
            /\ \A i \in Slots \ {PagesSlot} :
                  get(videos'[req.page_model.video_id].download_status, i)
                    = get(videos[req.page_model.video_id].download_status,
                          i)]_vars

=============================================================================
